---- MODULE Spec2Model ----
(***************************************************************************)
(* Password strength evaluation engine: pattern detector, entropy          *)
(* estimator, breach checker, scorer and the evaluate orchestrator.        *)
(*                                                                         *)
(* A string is a sequence of characters; a character is a one-token        *)
(* string.  Three characters outside ASCII are named by a token:           *)
(*   "sup2"  SUPERSCRIPT TWO  (str.isdigit is true, int() raises, the      *)
(*           regular expression class \d does not match it),               *)
(*   "auml"  LATIN SMALL LETTER A WITH DIAERESIS, "AUML" its capital.      *)
(* and "grave" names the ASCII grave accent.                               *)
(* An optional value (None or a value) is the empty or the one-element     *)
(* sequence.  An issue, a recommendation or a breach reason is a record    *)
(* [text, s, n]: the format string, the string put into it, and the        *)
(* numbers put into it.                                                    *)
(***************************************************************************)
EXTENDS Integers, Sequences, FiniteSets, TLC

\* ------------------------------------------------------------------------
\* Characters and the str methods the code uses
\* ------------------------------------------------------------------------

ascii_lowercase ==
    << "a","b","c","d","e","f","g","h","i","j","k","l","m",
       "n","o","p","q","r","s","t","u","v","w","x","y","z" >>

ascii_uppercase ==
    << "A","B","C","D","E","F","G","H","I","J","K","L","M",
       "N","O","P","Q","R","S","T","U","V","W","X","Y","Z" >>

ascii_digits == << "0","1","2","3","4","5","6","7","8","9" >>

Range(f) == { f[i] : i \in DOMAIN f }

LowerSet == Range(ascii_lowercase)
UpperSet == Range(ascii_uppercase)
DigitSet == Range(ascii_digits)

IndexOf(seq, c) == CHOOSE i \in DOMAIN seq : seq[i] = c

None == << >>
Some(x) == << x >>

\* c.islower()
islower(c) == c \in LowerSet \/ c = "auml"

\* c.isupper()
isupper(c) == c \in UpperSet \/ c = "AUML"

\* c.isalpha()
isalpha(c) == islower(c) \/ isupper(c)

\* c.isdigit(): the ASCII digits and the superscript digit
isdigit(c) == c \in DigitSet \/ c = "sup2"

\* the class \d of the re module, and the characters int() converts
isdecimal(c) == c \in DigitSet

\* int(c) for a character int() converts
int(c) == IndexOf(ascii_digits, c) - 1

\* c.lower()
lower_char(c) ==
    IF c \in UpperSet THEN ascii_lowercase[IndexOf(ascii_uppercase, c)]
    ELSE IF c = "AUML" THEN "auml"
    ELSE c

\* c.upper()
upper_char(c) ==
    IF c \in LowerSet THEN ascii_uppercase[IndexOf(ascii_lowercase, c)]
    ELSE IF c = "auml" THEN "AUML"
    ELSE c

\* ord(c) of a letter
ord(c) ==
    IF c \in LowerSet THEN 96 + IndexOf(ascii_lowercase, c)
    ELSE IF c \in UpperSet THEN 64 + IndexOf(ascii_uppercase, c)
    ELSE IF c = "auml" THEN 228
    ELSE 196

\* s.lower()
lower(s) == [ i \in 1..Len(s) |-> lower_char(s[i]) ]

\* s.upper()
upper(s) == [ i \in 1..Len(s) |-> upper_char(s[i]) ]

\* s.isalpha(), s.isdigit(): false on the empty string
str_isalpha(s) == Len(s) > 0 /\ \A i \in 1..Len(s) : isalpha(s[i])
str_isdigit(s) == Len(s) > 0 /\ \A i \in 1..Len(s) : isdigit(s[i])

\* the slice s[i:i+n] with i counted from 0
Slice(s, i, n) == SubSeq(s, i + 1, i + n)

\* `sub in s` taking the empty string as contained in no string
Contains_nonempty(s, sub) ==
    Len(sub) > 0 /\ \E i \in 0..(Len(s) - Len(sub)) : Slice(s, i, Len(sub)) = sub

\* `sub in s` for strings
Contains(s, sub) ==
    \E i \in 0..(Len(s) - Len(sub)) : Slice(s, i, Len(sub)) = sub

\* s[::-1]
Reverse(s) == [ i \in 1..Len(s) |-> s[Len(s) + 1 - i] ]

\* the text of an issue, a recommendation or a reason
Msg(text, s, n) == [ text |-> text, s |-> s, n |-> n ]

\* ------------------------------------------------------------------------
\* config.py
\* ------------------------------------------------------------------------

SCORE_THRESHOLDS == [ WEAK |-> 40, MEDIUM |-> 60, STRONG |-> 80, VERY_STRONG |-> 100 ]

MIN_ENTROPY_BITS == 20

PATTERN_THRESHOLDS ==
    [ min_repeat_length |-> 3,
      min_sequence_length |-> 4,
      min_keyboard_pattern_length |-> 4,
      max_year_range |-> << 1900, 2099 >>,
      min_dictionary_word_length |-> 4 ]

CHAR_POOL_SIZES == [ lowercase |-> 26, uppercase |-> 26, digits |-> 10, special |-> 33 ]

Categories ==
    << "repeated_chars", "sequential_chars", "keyboard_pattern", "leetspeak",
       "dictionary_word", "year_pattern", "username_similarity", "low_variety" >>

PATTERN_PENALTIES ==
    [ repeated_chars |-> 15, sequential_chars |-> 20, keyboard_pattern |-> 25,
      leetspeak |-> 10, dictionary_word |-> 30, year_pattern |-> 15,
      username_similarity |-> 25, low_variety |-> 20 ]

get_char_pool_size(has_lower, has_upper, has_digit, has_special) ==
    LET pool_size ==
            (IF has_lower THEN CHAR_POOL_SIZES.lowercase ELSE 0)
          + (IF has_upper THEN CHAR_POOL_SIZES.uppercase ELSE 0)
          + (IF has_digit THEN CHAR_POOL_SIZES.digits ELSE 0)
          + (IF has_special THEN CHAR_POOL_SIZES.special ELSE 0)
    IN  IF pool_size > 1 THEN pool_size ELSE 1

\* ------------------------------------------------------------------------
\* patterns.py: PatternDetector
\* ------------------------------------------------------------------------

KEYBOARD_ROWS ==
    << << "q","w","e","r","t","y","u","i","o","p" >>,
       << "a","s","d","f","g","h","j","k","l" >>,
       << "z","x","c","v","b","n","m" >>,
       << "1","2","3","4","5","6","7","8","9","0" >> >>

\* LEETSPEAK_MAP: the substitution lists, keyed by the original letter
LEETSPEAK_MAP ==
    << << "a", {"4", "@"} >>, << "e", {"3"} >>, << "i", {"1", "!"} >>,
       << "o", {"0"} >>, << "s", {"5", "$"} >>, << "t", {"7"} >>,
       << "l", {"1"} >>, << "z", {"2"} >> >>

\* the length-n contiguous substrings of row, each with its upper case
RowPatterns(row, n) ==
    UNION { { Slice(row, i, n), upper(Slice(row, i, n)) } : i \in 0..(Len(row) - n) }

\* the column read at col_idx (from 0) of the three letter rows
ColumnPattern(col_idx) ==
    LET Pick(r) == IF col_idx < Len(KEYBOARD_ROWS[r])
                   THEN << KEYBOARD_ROWS[r][col_idx + 1] >> ELSE << >>
    IN  Pick(1) \o Pick(2) \o Pick(3)

_build_keyboard_patterns ==
    LET n == PATTERN_THRESHOLDS.min_keyboard_pattern_length
        forward == UNION { RowPatterns(KEYBOARD_ROWS[r], n) : r \in 1..4 }
        reverse == UNION { RowPatterns(Reverse(KEYBOARD_ROWS[r]), n) : r \in 1..4 }
        columns == UNION { IF Len(ColumnPattern(c)) >= n
                           THEN { ColumnPattern(c), upper(ColumnPattern(c)) }
                           ELSE {} : c \in 0..9 }
    IN  forward \cup reverse \cup columns

keyboard_patterns == _build_keyboard_patterns

\* the index after the run of password[i] that starts at i (indices from 1)
RECURSIVE RunEnd(_, _, _)
RunEnd(password, i, j) ==
    IF j <= Len(password) /\ password[j] = password[i]
    THEN RunEnd(password, i, j + 1)
    ELSE j

RECURSIVE RepeatedFrom(_, _)
RepeatedFrom(password, i) ==
    IF i > Len(password) THEN << >>
    ELSE LET j == RunEnd(password, i, i + 1)
             count == j - i
         IN  (IF count >= PATTERN_THRESHOLDS.min_repeat_length
              THEN << Msg("Repeated character '{char}' {count} times",
                          << password[i] >>, << count >>) >>
              ELSE << >>)
             \o RepeatedFrom(password, j)

\* _detect_repeated_chars taking the two cases of a letter as one character
_detect_repeated_chars_folded(password) == RepeatedFrom(lower(password), 1)

_detect_repeated_chars(password) == RepeatedFrom(password, 1)

_is_ascending_alpha(s) ==
    /\ str_isalpha(s)
    /\ \A i \in 1..(Len(s) - 1) : ord(lower_char(s[i + 1])) = ord(lower_char(s[i])) + 1

_is_descending_alpha(s) ==
    /\ str_isalpha(s)
    /\ \A i \in 1..(Len(s) - 1) : ord(lower_char(s[i + 1])) = ord(lower_char(s[i])) - 1

\* The loop of the numeric checks from index i (from 1): "True", "False",
\* or "ValueError" when int() is applied to a character it cannot convert
\* before a mismatch ends the loop.  step is +1 (ascending) or -1.
RECURSIVE NumericLoop(_, _, _)
NumericLoop(s, i, step) ==
    IF i > Len(s) - 1 THEN "True"
    ELSE IF ~isdecimal(s[i + 1]) \/ ~isdecimal(s[i]) THEN "ValueError"
    ELSE IF int(s[i + 1]) # (int(s[i]) + step) % 10 THEN "False"
    ELSE NumericLoop(s, i + 1, step)

_is_ascending_numeric(s) ==
    IF ~str_isdigit(s) THEN "False" ELSE NumericLoop(s, 1, 1)

\* _is_descending_numeric without the step from 0 down to 9
_is_descending_numeric_nowrap(s) ==
    IF ~str_isdigit(s) THEN "False"
    ELSE IF NumericLoop(s, 1, -1) = "True" /\ \E i \in 1..(Len(s) - 1) : int(s[i + 1]) > int(s[i])
    THEN "False"
    ELSE NumericLoop(s, 1, -1)

_is_descending_numeric(s) ==
    IF ~str_isdigit(s) THEN "False" ELSE NumericLoop(s, 1, -1)

\* One window of the sequential detector: the issues it appends (none or
\* one) and whether it raised.
SequentialWindow(window) ==
    IF _is_ascending_alpha(window)
    THEN [ raised |-> FALSE,
           issues |-> << Msg("Sequential pattern: '{window}' (ascending)", window, << >>) >> ]
    ELSE IF _is_descending_alpha(window)
    THEN [ raised |-> FALSE,
           issues |-> << Msg("Sequential pattern: '{window}' (descending)", window, << >>) >> ]
    ELSE LET asc == _is_ascending_numeric(window) IN
         IF asc = "ValueError" THEN [ raised |-> TRUE, issues |-> << >> ]
         ELSE IF asc = "True"
         THEN [ raised |-> FALSE,
                issues |-> << Msg("Sequential pattern: '{window}' (numerical)", window, << >>) >> ]
         ELSE LET desc == _is_descending_numeric(window) IN
              IF desc = "ValueError" THEN [ raised |-> TRUE, issues |-> << >> ]
              ELSE IF desc = "True"
              THEN [ raised |-> FALSE,
                     issues |-> << Msg("Sequential pattern: '{window}' (numerical descending)",
                                       window, << >>) >> ]
              ELSE [ raised |-> FALSE, issues |-> << >> ]

\* the windows from index i (from 0) on; a raise ends the scan
RECURSIVE SequentialFrom(_, _)
SequentialFrom(password, i) ==
    LET min_seq == PATTERN_THRESHOLDS.min_sequence_length IN
    IF i > Len(password) - min_seq THEN [ raised |-> FALSE, issues |-> << >> ]
    ELSE LET w == SequentialWindow(Slice(password, i, min_seq)) IN
         IF w.raised THEN w
         ELSE LET rest == SequentialFrom(password, i + 1) IN
              [ raised |-> rest.raised, issues |-> w.issues \o rest.issues ]

_detect_sequential_chars(password) == SequentialFrom(password, 0)

RECURSIVE KeyboardFrom(_, _)
KeyboardFrom(password_lower, i) ==
    LET min_len == PATTERN_THRESHOLDS.min_keyboard_pattern_length IN
    IF i > Len(password_lower) - min_len THEN << >>
    ELSE LET window == Slice(password_lower, i, min_len) IN
         (IF window \in keyboard_patterns
          THEN << Msg("Keyboard pattern detected: '{window}'", window, << >>) >>
          ELSE << >>)
         \o KeyboardFrom(password_lower, i + 1)

_detect_keyboard_patterns(password_lower) == KeyboardFrom(password_lower, 0)

\* leet_patterns: each regular expression as the sequence of its character
\* classes, with the word it stands for
leet_patterns ==
    << << << {"a","@"}, {"d"}, {"m"}, {"i","1"}, {"n"} >>,
          << "a","d","m","i","n" >> >>,
       << << {"p"}, {"@","a"}, {"s"}, {"s"}, {"w"}, {"o","0"}, {"r"}, {"d"} >>,
          << "p","a","s","s","w","o","r","d" >> >>,
       << << {"l","1"}, {"0"}, {"v"}, {"3"} >>,
          << "l","o","v","e" >> >>,
       << << {"h","4"}, {"a"}, {"c"}, {"k"} >>,
          << "h","a","c","k" >> >>,
       << << {"t","7"}, {"e"}, {"s"}, {"t"} >>,
          << "t","e","s","t" >> >> >>

\* re.search of a sequence of character classes in s
re_search(pattern, s) ==
    \E i \in 0..(Len(s) - Len(pattern)) :
        \A k \in 1..Len(pattern) : s[i + k] \in pattern[k]

\* the character is in one of the substitution lists
IsLeetChar(char) == \E m \in 1..Len(LEETSPEAK_MAP) : char \in LEETSPEAK_MAP[m][2]

RECURSIVE LeetWords(_, _)
LeetWords(password_lower, k) ==
    IF k > Len(leet_patterns) THEN << >>
    ELSE (IF re_search(leet_patterns[k][1], password_lower)
          THEN << Msg("Leetspeak substitution detected (resembles '{word}')",
                      leet_patterns[k][2], << >>) >>
          ELSE << >>)
         \o LeetWords(password_lower, k + 1)

\* _detect_leetspeak reporting a ratio of 0.3 or more
_detect_leetspeak_from_30(password_lower) ==
    LET leet_count == Cardinality({ i \in 1..Len(password_lower) : IsLeetChar(password_lower[i]) })
    IN  LeetWords(password_lower, 1)
        \o (IF Len(password_lower) > 0 /\ 10 * leet_count >= 3 * Len(password_lower)
            THEN << Msg("High leetspeak substitution ratio detected", << >>, << >>) >>
            ELSE << >>)

_detect_leetspeak(password_lower) ==
    LET leet_count == Cardinality({ i \in 1..Len(password_lower) : IsLeetChar(password_lower[i]) })
    IN  LeetWords(password_lower, 1)
        \o (IF Len(password_lower) > 0 /\ 10 * leet_count > 3 * Len(password_lower)
            THEN << Msg("High leetspeak substitution ratio detected", << >>, << >>) >>
            ELSE << >>)

\* issue.split("'")[1]: every issue text with an apostrophe opens its first
\* quotation with the string put into it, so the piece after the first
\* apostrophe is that string up to its own first apostrophe
RECURSIVE UpToApostrophe(_, _)
UpToApostrophe(s, i) ==
    IF i > Len(s) \/ s[i] = "'" THEN SubSeq(s, 1, i - 1)
    ELSE UpToApostrophe(s, i + 1)

split_quote_1(issue) == UpToApostrophe(issue.s, 1)

\* the loop over the dictionary, in the iteration order words of the set
RECURSIVE DictionaryLoop(_, _, _, _)
DictionaryLoop(password_lower, words, k, issues) ==
    IF k > Len(words) THEN issues
    ELSE LET word == words[k]
             quoted == { split_quote_1(issues[i]) : i \in 1..Len(issues) }
         IN  DictionaryLoop(password_lower, words, k + 1,
                 IF /\ Len(word) >= PATTERN_THRESHOLDS.min_dictionary_word_length
                    /\ Contains(password_lower, word)
                    /\ word \notin quoted
                 THEN Append(issues, Msg("Contains dictionary word: '{word}'", word, << >>))
                 ELSE issues)

\* dictionary_words: the set, as the sequence of its words in iteration order
_detect_dictionary_words(password_lower, dictionary_words) ==
    IF Len(dictionary_words) = 0 THEN << >>
    ELSE DictionaryLoop(password_lower, dictionary_words, 1,
             IF /\ Len(password_lower) >= PATTERN_THRESHOLDS.min_dictionary_word_length
                /\ password_lower \in Range(dictionary_words)
             THEN << Msg("Password is a common dictionary word: '{password_lower}'",
                         password_lower, << >>) >>
             ELSE << >>)

\* int(s) of a string of decimal digits
RECURSIVE int_str(_)
int_str(s) ==
    IF Len(s) = 0 THEN 0
    ELSE 10 * int_str(SubSeq(s, 1, Len(s) - 1)) + int(s[Len(s)])

\* the scan for years going on one character after a match, so that matches
\* overlap
RECURSIVE YearFrom_overlapping(_, _)
YearFrom_overlapping(password, pos) ==
    IF pos > Len(password) - 4 THEN << >>
    ELSE LET year_str == Slice(password, pos, 4) IN
         IF \A k \in 1..4 : isdecimal(year_str[k])
         THEN (IF /\ PATTERN_THRESHOLDS.max_year_range[1] <= int_str(year_str)
                  /\ int_str(year_str) <= PATTERN_THRESHOLDS.max_year_range[2]
               THEN << Msg("Year pattern detected: '{year_str}'", year_str, << >>) >>
               ELSE << >>)
              \o YearFrom_overlapping(password, pos + 1)
         ELSE YearFrom_overlapping(password, pos + 1)

\* re.finditer(r'\d{4}', password) from position pos (from 0): the matches
\* are taken left to right and do not overlap
RECURSIVE YearFrom(_, _)
YearFrom(password, pos) ==
    IF pos > Len(password) - 4 THEN << >>
    ELSE LET year_str == Slice(password, pos, 4) IN
         IF \A k \in 1..4 : isdecimal(year_str[k])
         THEN (IF /\ PATTERN_THRESHOLDS.max_year_range[1] <= int_str(year_str)
                  /\ int_str(year_str) <= PATTERN_THRESHOLDS.max_year_range[2]
               THEN << Msg("Year pattern detected: '{year_str}'", year_str, << >>) >>
               ELSE << >>)
              \o YearFrom(password, pos + 4)
         ELSE YearFrom(password, pos + 1)

_detect_year_patterns(password) == YearFrom(password, 0)

\* difflib.SequenceMatcher(None, a, b) on strings shorter than 200
\* characters (no junk, no popular-element heuristic).
\* the length of the common run of a[i:ahi] and b[j:bhi] (indices from 0)
RECURSIVE CommonRun(_, _, _, _, _, _)
CommonRun(a, b, i, j, ahi, bhi) ==
    IF i < ahi /\ j < bhi /\ a[i + 1] = b[j + 1]
    THEN 1 + CommonRun(a, b, i + 1, j + 1, ahi, bhi)
    ELSE 0

SetMax(S) == CHOOSE x \in S : \A y \in S : y <= x
SetMin(S) == CHOOSE x \in S : \A y \in S : x <= y

\* find_longest_match: the longest block, earliest in a, then earliest in b
find_longest_match(a, b, alo, ahi, blo, bhi) ==
    LET size == SetMax({0} \cup { CommonRun(a, b, i, j, ahi, bhi) :
                                    i \in alo..(ahi - 1), j \in blo..(bhi - 1) })
    IN  IF size = 0 THEN << alo, blo, 0 >>
        ELSE LET besti == SetMin({ i \in alo..(ahi - 1) :
                                     \E j \in blo..(bhi - 1) :
                                         CommonRun(a, b, i, j, ahi, bhi) = size })
                 bestj == SetMin({ j \in blo..(bhi - 1) :
                                     CommonRun(a, b, besti, j, ahi, bhi) = size })
             IN  << besti, bestj, size >>

\* the total size of get_matching_blocks
RECURSIVE matching_size(_, _, _, _, _, _)
matching_size(a, b, alo, ahi, blo, bhi) ==
    LET m == find_longest_match(a, b, alo, ahi, blo, bhi) IN
    IF m[3] = 0 THEN 0
    ELSE m[3]
         + (IF alo < m[1] /\ blo < m[2]
            THEN matching_size(a, b, alo, m[1], blo, m[2]) ELSE 0)
         + (IF m[1] + m[3] < ahi /\ m[2] + m[3] < bhi
            THEN matching_size(a, b, m[1] + m[3], ahi, m[2] + m[3], bhi) ELSE 0)

\* ratio() as the fraction << matches * 2, total length >>; 1.0 when both
\* strings are empty
ratio(a, b) ==
    IF Len(a) + Len(b) = 0 THEN << 1, 1 >>
    ELSE << 2 * matching_size(a, b, 0, Len(a), 0, Len(b)), Len(a) + Len(b) >>

\* f"{num/den:.2f}" in hundredths: the quotient rounded to two decimals,
\* a tie going to the even digit (with den < 40 a tie is a binary fraction,
\* which the float holds exactly)
Round2(num, den) ==
    LET q == (100 * num) \div den
        r == (100 * num) % den
    IN  IF 2 * r < den THEN q
        ELSE IF 2 * r > den THEN q + 1
        ELSE IF q % 2 = 0 THEN q ELSE q + 1

\* email_lower.split('@')[0]
RECURSIVE UpToAt(_, _)
UpToAt(s, i) ==
    IF i > Len(s) \/ s[i] = "@" THEN SubSeq(s, 1, i - 1)
    ELSE UpToAt(s, i + 1)

\* `if username:` taking the empty string as a supplied value
Truthy_supplied(opt) == Len(opt) = 1

\* username and email are optional strings; `if username:` is false for
\* None and for the empty string
Truthy(opt) == Len(opt) = 1 /\ Len(opt[1]) > 0

_detect_username_similarity(password, username, email) ==
    IF ~Truthy(username) /\ ~Truthy(email) THEN << >>
    ELSE
    LET password_lower == lower(password)
        username_issues ==
            IF Truthy(username)
            THEN LET username_lower == lower(username[1])
                     similarity == ratio(password_lower, username_lower)
                 IN  (IF Contains(password_lower, username_lower)
                      THEN << Msg("Password contains username: '{username}'",
                                  username[1], << >>) >>
                      ELSE << >>)
                     \o (IF 2 * similarity[1] >= similarity[2]
                         THEN << Msg("Password too similar to username (similarity: {similarity:.2f})",
                                     << >>, << Round2(similarity[1], similarity[2]) >>) >>
                         ELSE << >>)
            ELSE << >>
        email_issues ==
            IF Truthy(email)
            THEN LET email_lower == lower(email[1])
                     email_local == UpToAt(email_lower, 1)
                     similarity == ratio(password_lower, email_local)
                 IN  (IF Contains(password_lower, email_local)
                      THEN << Msg("Password contains email username: '{email_local}'",
                                  email_local, << >>) >>
                      ELSE << >>)
                     \o (IF 2 * similarity[1] >= similarity[2]
                         THEN << Msg("Password too similar to email (similarity: {similarity:.2f})",
                                     << >>, << Round2(similarity[1], similarity[2]) >>) >>
                         ELSE << >>)
            ELSE << >>
    IN  username_issues \o email_issues

\* _detect_low_variety reporting a ratio of 0.3 or less
_detect_low_variety_upto_30(password) ==
    IF Len(password) = 0 THEN << >>
    ELSE LET unique_chars == Cardinality(Range(password)) IN
         IF 10 * unique_chars <= 3 * Len(password)
         THEN << Msg("Low character variety: {unique_chars} unique characters out of {len} (ratio: {variety_ratio:.2f})",
                     << >>,
                     << unique_chars, Len(password), Round2(unique_chars, Len(password)) >>) >>
         ELSE << >>

_detect_low_variety(password) ==
    IF Len(password) = 0 THEN << >>
    ELSE LET unique_chars == Cardinality(Range(password)) IN
         IF 10 * unique_chars < 3 * Len(password)
         THEN << Msg("Low character variety: {unique_chars} unique characters out of {len} (ratio: {variety_ratio:.2f})",
                     << >>,
                     << unique_chars, Len(password), Round2(unique_chars, Len(password)) >>) >>
         ELSE << >>

\* detect_all returning the map with the empty lists left in
detect_all_unfiltered(password, username, email, dictionary_words) ==
    LET password_lower == lower(password)
        sequential == _detect_sequential_chars(password)
        issues ==
            << << "repeated_chars", _detect_repeated_chars(password) >>,
               << "sequential_chars", sequential.issues >>,
               << "keyboard_pattern", _detect_keyboard_patterns(password_lower) >>,
               << "leetspeak", _detect_leetspeak(password_lower) >>,
               << "dictionary_word", _detect_dictionary_words(password_lower, dictionary_words) >>,
               << "year_pattern", _detect_year_patterns(password) >>,
               << "username_similarity", _detect_username_similarity(password, username, email) >>,
               << "low_variety", _detect_low_variety(password) >> >>
    IN  IF sequential.raised
        THEN [ raised |-> TRUE, value |-> << >> ]
        ELSE [ raised |-> FALSE, value |-> issues ]

\* detect_all: the map as the sequence of its << key, issue list >> items in
\* insertion order, empty lists removed; raised when a detector raised
detect_all(password, username, email, dictionary_words) ==
    LET password_lower == lower(password)
        sequential == _detect_sequential_chars(password)
        issues ==
            << << "repeated_chars", _detect_repeated_chars(password) >>,
               << "sequential_chars", sequential.issues >>,
               << "keyboard_pattern", _detect_keyboard_patterns(password_lower) >>,
               << "leetspeak", _detect_leetspeak(password_lower) >>,
               << "dictionary_word", _detect_dictionary_words(password_lower, dictionary_words) >>,
               << "year_pattern", _detect_year_patterns(password) >>,
               << "username_similarity", _detect_username_similarity(password, username, email) >>,
               << "low_variety", _detect_low_variety(password) >> >>
    IN  IF sequential.raised
        THEN [ raised |-> TRUE, value |-> << >> ]
        ELSE [ raised |-> FALSE,
               value |-> SelectSeq(issues, LAMBDA item : Len(item[2]) > 0) ]

\* ------------------------------------------------------------------------
\* entropy.py: EntropyCalculator
\* ------------------------------------------------------------------------

\* Entropy values are integers in millionths of a bit.
Micro == 1000000

\* math.log2(pool_size) in millionths of a bit, for the pool sizes
\* get_char_pool_size can return
log2_micro(pool_size) ==
    CASE pool_size = 1 -> 0
      [] pool_size = 10 -> 3321928
      [] pool_size = 26 -> 4700440
      [] pool_size = 33 -> 5044394
      [] pool_size = 36 -> 5169925
      [] pool_size = 43 -> 5426265
      [] pool_size = 52 -> 5700440
      [] pool_size = 59 -> 5882643
      [] pool_size = 62 -> 5954196
      [] pool_size = 69 -> 6108524
      [] pool_size = 85 -> 6409391
      [] pool_size = 95 -> 6569856

\* the characters of the special-symbol string literal
SPECIAL_CHARS ==
    { "!", "\"", "#", "$", "%", "&", "'", "(", ")", "*", "+", ",", "-", ".", "/",
      ":", ";", "<", "=", ">", "?", "@", "[", "\\", "]", "^", "_", "grave", "{", "|", "}", "~" }

\* a penalty of 10 bits whatever the entropy is
entropy_penalty_flat(x) == x - 10 * Micro

\* x * (1 - ENTROPY_PENALTY_MULTIPLIER), the multiplier being 0.3
entropy_penalty(x) == (x \div 10) * 7 + ((x % 10) * 7) \div 10

\* calculate_entropy: << entropy, character class flags >>
calculate_entropy(password, has_patterns) ==
    IF Len(password) = 0
    THEN << 0, [ has_lower |-> FALSE, has_upper |-> FALSE,
                 has_digit |-> FALSE, has_special |-> FALSE ] >>
    ELSE
    LET has_lower == \E i \in 1..Len(password) : islower(password[i])
        has_upper == \E i \in 1..Len(password) : isupper(password[i])
        has_digit == \E i \in 1..Len(password) : isdigit(password[i])
        has_special == \E i \in 1..Len(password) : password[i] \in SPECIAL_CHARS
        pool_size == get_char_pool_size(has_lower, has_upper, has_digit, has_special)
        length == Len(password)
        base_entropy == length * log2_micro(pool_size)
        effective_entropy == IF has_patterns THEN entropy_penalty(base_entropy)
                             ELSE base_entropy
    IN  << IF effective_entropy > 0 THEN effective_entropy ELSE 0,
           [ has_lower |-> has_lower, has_upper |-> has_upper,
             has_digit |-> has_digit, has_special |-> has_special,
             pool_size |-> pool_size ] >>

\* round(entropy_bits, 2), in hundredths of a bit
round2(entropy_bits) == (entropy_bits + 5000) \div 10000

\* f"{entropy_bits:.1f}", in tenths of a bit
format1(entropy_bits) == (entropy_bits + 50000) \div 100000

\* ------------------------------------------------------------------------
\* scorer.py: PasswordScorer
\* ------------------------------------------------------------------------

Min(a, b) == IF a < b THEN a ELSE b
Max(a, b) == IF a > b THEN a ELSE b

\* the entropy-based score, int() truncating
base_score(entropy_bits) ==
    IF entropy_bits <= 0 THEN 0
    ELSE IF entropy_bits < 20 * Micro THEN entropy_bits \div Micro
    ELSE IF entropy_bits < 40 * Micro
         THEN 20 + (3 * (entropy_bits - 20 * Micro)) \div (2 * Micro)
    ELSE IF entropy_bits < 60 * Micro
         THEN 50 + (entropy_bits - 40 * Micro) \div Micro
    ELSE 70 + Min((entropy_bits - 60 * Micro) \div (2 * Micro), 10)

\* PATTERN_PENALTIES.get(pattern_type, 0)
penalty_of(pattern_type) ==
    IF pattern_type \in DOMAIN PATTERN_PENALTIES THEN PATTERN_PENALTIES[pattern_type] ELSE 0

\* the loop taking the penalty of a category once for each of its issues
RECURSIVE penalties_per_issue(_, _)
penalties_per_issue(pattern_issues, k) ==
    IF k > Len(pattern_issues) THEN 0
    ELSE Len(pattern_issues[k][2]) * penalty_of(pattern_issues[k][1])
         + penalties_per_issue(pattern_issues, k + 1)

\* the loop over pattern_issues.items()
RECURSIVE penalties(_, _)
penalties(pattern_issues, k) ==
    IF k > Len(pattern_issues) THEN 0
    ELSE (IF Len(pattern_issues[k][2]) > 0 THEN penalty_of(pattern_issues[k][1]) ELSE 0)
         + penalties(pattern_issues, k + 1)

\* a length bonus of 10, 6, 2 or 0
length_bonus_doubled(length) ==
    IF length >= 16 THEN 10
    ELSE IF length >= 12 THEN 6
    ELSE IF length >= 8 THEN 2
    ELSE 0

length_bonus(length) ==
    IF length >= 16 THEN 5
    ELSE IF length >= 12 THEN 3
    ELSE IF length >= 8 THEN 1
    ELSE 0

\* calculate_score without the final clamp to [0, 100]
calculate_score_unclamped(entropy_bits, pattern_issues, is_breached, length) ==
    IF is_breached THEN 0
    ELSE base_score(entropy_bits) - penalties(pattern_issues, 1) + length_bonus(length)

\* calculate_score without the early return for a breached password
calculate_score_unforced(entropy_bits, pattern_issues, is_breached, length) ==
    Max(0, Min(100, base_score(entropy_bits) - penalties(pattern_issues, 1)
                    + length_bonus(length)))

calculate_score(entropy_bits, pattern_issues, is_breached, length) ==
    IF is_breached THEN 0
    ELSE Max(0, Min(100, base_score(entropy_bits) - penalties(pattern_issues, 1)
                         + length_bonus(length)))

classify_strength(score) ==
    IF score < SCORE_THRESHOLDS.WEAK THEN "Weak"
    ELSE IF score < SCORE_THRESHOLDS.MEDIUM THEN "Medium"
    ELSE IF score < SCORE_THRESHOLDS.STRONG THEN "Strong"
    ELSE "Very Strong"

\* `key in pattern_issues`
HasKey(pattern_issues, key) == \E k \in 1..Len(pattern_issues) : pattern_issues[k][1] = key

\* char_classes.get(key)
class_get(char_classes, key) ==
    IF key \in DOMAIN char_classes THEN char_classes[key] ELSE FALSE

Rec(text) == Msg(text, << >>, << >>)

When(cond, rec) == IF cond THEN << rec >> ELSE << >>

generate_recommendations(score, strength, entropy_bits, pattern_issues, is_breached, char_classes, length) ==
    IF is_breached
    THEN << Rec("This password has been compromised in a data breach. Use a completely different password.") >>
    ELSE
    LET recommendations ==
               When(strength = "Weak",
                    Rec("Password is weak. Consider using a longer, more complex password."))
            \o When(entropy_bits < MIN_ENTROPY_BITS * Micro,
                    Msg("Entropy is low ({entropy_bits:.1f} bits). Increase password complexity.",
                        << >>, << format1(entropy_bits) >>))
            \o (IF length < 8
                THEN << Rec("Password is too short. Use at least 8 characters.") >>
                ELSE IF length < 12
                THEN << Rec("Consider using a longer password (12+ characters) for better security.") >>
                ELSE << >>)
            \o When(~class_get(char_classes, "has_lower"),
                    Rec("Add lowercase letters to increase character variety."))
            \o When(~class_get(char_classes, "has_upper"),
                    Rec("Add uppercase letters to increase character variety."))
            \o When(~class_get(char_classes, "has_digit"),
                    Rec("Add numbers to increase character variety."))
            \o When(~class_get(char_classes, "has_special"),
                    Rec("Add special characters to increase character variety."))
            \o When(HasKey(pattern_issues, "repeated_chars"),
                    Rec("Avoid repeating the same character multiple times."))
            \o When(HasKey(pattern_issues, "sequential_chars"),
                    Rec("Avoid sequential patterns (abc, 123, etc.)."))
            \o When(HasKey(pattern_issues, "keyboard_pattern"),
                    Rec("Avoid keyboard patterns (qwerty, asdf, etc.)."))
            \o When(HasKey(pattern_issues, "dictionary_word"),
                    Rec("Avoid common dictionary words. Use random or uncommon words."))
            \o When(HasKey(pattern_issues, "year_pattern"),
                    Rec("Avoid year patterns. Don't use birth years or common years."))
            \o When(HasKey(pattern_issues, "username_similarity"),
                    Rec("Don't use your username or email in your password."))
            \o When(HasKey(pattern_issues, "leetspeak"),
                    Rec("Leetspeak substitutions (p@ssw0rd) are predictable. Use truly random characters."))
    IN  IF Len(recommendations) = 0
        THEN << Rec("Password meets good security practices. Keep it secure and don't reuse it.") >>
        ELSE recommendations

\* ------------------------------------------------------------------------
\* breach.py: BreachChecker
\* ------------------------------------------------------------------------

hibp_api_url == "https://api.pwnedpasswords.com/range/"

LOCAL_REASON == Msg("Password found in common breach database (top 10k)", << >>, << >>)

\* A path is the sequence of its components, the file name last.
DATA_DIR == "data"
local_blacklist_file == << "data", "top_10k_passwords.txt" >>

\* os.path.basename(path)
basename(path) == path[Len(path)]

\* os.path.join(dir, name)
join(dir, name) == << dir, name >>

\* the characters str.strip() removes
whitespace == { " ", "\t", "\n", "\r" }

RECURSIVE lstrip(_)
lstrip(s) == IF Len(s) > 0 /\ s[1] \in whitespace THEN lstrip(Tail(s)) ELSE s

RECURSIVE rstrip(_)
rstrip(s) ==
    IF Len(s) > 0 /\ s[Len(s)] \in whitespace THEN rstrip(SubSeq(s, 1, Len(s) - 1)) ELSE s

\* line.strip()
strip(s) == rstrip(lstrip(s))

\* BreachChecker.__init__: the blacklist file kept for an optional argument
init_blacklist_file(blacklist_file) ==
    IF blacklist_file = None \/ blacklist_file[1] = << >>
    THEN local_blacklist_file
    ELSE blacklist_file[1]

\* _load_blacklist: the set loaded for blacklist_file from the files on disk,
\* a function from the paths that exist to [readable, lines]
_load_blacklist(blacklist_file, disk) ==
    LET blacklist_path == join(DATA_DIR, basename(blacklist_file))
    IN  IF blacklist_path \in DOMAIN disk
        THEN IF disk[blacklist_path].readable
             THEN { lower(strip(line)) :
                        line \in { l \in Range(disk[blacklist_path].lines) : strip(l) # << >> } }
             ELSE {}
        ELSE {}

\* hashlib.sha1(password.encode('utf-8')).hexdigest(), tabulated for the
\* passwords checked against the remote service
sha1_hexdigest(password) ==
    CASE password = << "p","a","s","s","w","o","r","d" >> ->
          << "5","b","a","a","6","1","e","4","c","9","b","9","3","f","3","f","0","6","8","2","2","5","0","b","6","c","f","8","3","3","1","b","7","e","e","6","8","f","d","8" >>
      [] password = << "P","a","s","s","w","o","r","d" >> ->
          << "8","b","e","3","c","9","4","3","b","1","6","0","9","f","f","f","b","f","c","5","1","a","a","d","6","6","6","d","0","a","0","4","a","d","f","8","3","c","9","d" >>
      [] password = << "3","C" >> ->
          << "8","5","b","a","7","1","5","7","0","0","f","2","4","5","1","4","5","9","8","d","1","d","8","6","3","f","0","4","0","a","4","c","c","4","c","5","0","1","e","d" >>
      [] password = << "c","B","C","a" >> ->
          << "8","5","b","a","7","7","d","b","7","6","c","1","b","4","0","9","e","0","a","6","c","b","6","c","6","c","2","8","6","5","d","1","3","e","4","1","c","e","0","3" >>
      [] password = << "a","1" >> ->
          << "f","2","9","b","c","9","1","b","b","d","a","b","1","6","9","f","c","0","c","0","a","3","2","6","9","6","5","9","5","3","d","1","1","c","7","d","f","f","8","3" >>
      [] password = << "A","1" >> ->
          << "1","f","f","d","4","b","a","3","e","b","9","f","f","a","d","f","4","d","b","3","c","3","f","f","4","c","1","b","b","c","f","9","4","a","6","4","c","c","5","9" >>

\* text.splitlines(): the pieces between line feeds, without a last empty one
RECURSIVE splitlines(_)
splitlines(text) ==
    IF Len(text) = 0 THEN << >>
    ELSE LET ends == { i \in 1..Len(text) : text[i] = "\n" } IN
         IF ends = {} THEN << text >>
         ELSE LET e == SetMin(ends) IN
              << SubSeq(text, 1, e - 1) >> \o splitlines(SubSeq(text, e + 1, Len(text)))

\* line.split(':', 1) of a line with a colon
split_colon(line) ==
    LET c == SetMin({ i \in 1..Len(line) : line[i] = ":" })
    IN  << SubSeq(line, 1, c - 1), SubSeq(line, c + 1, Len(line)) >>

\* a request that carries the whole digest
hibp_request_full(password) ==
    LET password_hash == upper(sha1_hexdigest(password))
    IN  [ method |-> "GET", url |-> << hibp_api_url >> \o password_hash, timeout |-> 5 ]

\* the request _check_hibp sends for password
hibp_request(password) ==
    LET password_hash == upper(sha1_hexdigest(password))
        hash_prefix == SubSeq(password_hash, 1, 5)
    IN  [ method |-> "GET", url |-> << hibp_api_url >> \o hash_prefix, timeout |-> 5 ]

\* the first line of lines, from index k, whose suffix is hash_suffix
RECURSIVE hibp_scan(_, _, _)
hibp_scan(lines, k, hash_suffix) ==
    IF k > Len(lines) THEN << FALSE, None >>
    ELSE IF ":" \in Range(lines[k]) /\ split_colon(lines[k])[1] = hash_suffix
         THEN << TRUE, Some(Msg("Password found in HIBP database ({count} breaches)",
                                split_colon(lines[k])[2], << >>)) >>
         ELSE hibp_scan(lines, k + 1, hash_suffix)

\* _check_hibp from the outcome of requests.get on
\* outcome: [kind |-> "ImportError"], [kind |-> "Exception", e |-> message],
\* or [kind |-> "Response", status_code |-> code, text |-> body]
_check_hibp(password, outcome) ==
    IF outcome.kind = "ImportError"
    THEN << FALSE, Some(Msg("HIBP check requires 'requests' library", << >>, << >>)) >>
    ELSE IF outcome.kind = "Exception"
    THEN << FALSE, Some(Msg("HIBP check failed: {str(e)}", outcome.e, << >>)) >>
    ELSE LET password_hash == upper(sha1_hexdigest(password))
             hash_suffix == SubSeq(password_hash, 6, Len(password_hash))
         IN  IF outcome.status_code = 200
             THEN hibp_scan(splitlines(outcome.text), 1, hash_suffix)
             ELSE << FALSE, None >>

\* ------------------------------------------------------------------------
\* Inputs
\* ------------------------------------------------------------------------

\* every string over Sigma of at most MaxLen characters is a password
MaxLen == 2
Sigma == { "a", "A", "1", "sup2" }
SeqsUpTo(S, n) == UNION { [ 1..k -> S ] : k \in 0..n }

SamplePasswords ==
    { << "p","a","s","s","w","o","r","d","1","2","3" >>,
      << "P","a","s","s","w","o","r","d","1","2","3" >>,
      << "a","b","c","d","1","2","3","4" >>,
      << "q","w","e","r","t","y" >>,
      << "a","a","a","a","1","1","1","1" >>,
      << "j","o","h","n","s","m","i","t","h","1","2","3" >>,
      << "X","k","9","#","m","P","2","$","v","L","7","@","n","Q","4","&","w","R","8","!" >>,
      << "T","r","0","u","b","4","d","o","r","&","3" >>,
      << "p","auml","s","s","w","auml","r","d","1","2","3" >>,
      << "1","9","9","9" >>,
      << "8","9","0","1" >>,
      << "!","@","#","$","%","^","&","*","(",")" >>,
      << " "," "," " >>,
      << "t","e","s","t","p","a","s","s","w","o","r","d" >>,
      << "a","a","a","a","a","a","a" >>,
      << "j","o","h","n","1","2","3" >>,
      << "P","@","s","s","w","0","r","d","!" >>,
      << "d","c","b","a" >>,
      << "z","p","d","k","g","m","x","q" >>,
      << "Z","k","#","9","m","P","v","$","L","q","7","w","N","!" >>,
      << "1","2","sup2","sup2" >>,
      << "sup2","sup2","sup2","sup2" >>,
      << "1","3","sup2","sup2" >>,
      << "x","k","9","#","m","p","2","$","v","l","7","@","n","q","4","&","w","r","8","!" >>,
      << "a","a","a","a" >> }

Passwords == SeqsUpTo(Sigma, MaxLen) \cup SamplePasswords

\* << username, email >>, each optional
Identities ==
    { << None, None >>,
      << Some(<< "a","1" >>), None >>,
      << Some(<< >>), Some(<< "@","a" >>) >>,
      << Some(<< "J","o","h","n","S","m","i","t","h" >>), Some(<< "j","o","h","n","@","x" >>) >> }

\* the dictionary sets an evaluator is built with, each in an iteration order
DictionaryOrders ==
    { << >>,
      << << "p","a","s","s","w","o","r","d" >>, << "p","a","s","s" >> >>,
      << << "p","a","s","s" >>, << "p","a","s","s","w","o","r","d" >> >> }

\* the lines of a blacklist file
TopPasswordLines ==
    << << "P","a","s","s","w","o","r","d","1","2","3","\n" >>,
       << " ","a","a"," ","\n" >>,
       << " ","\n" >>,
       << "x","k","9","#","m","p","2","$","v","l","7","@","n","q","4","&","w","r","8","!" >> >>

\* the disks of an evaluator built with the default blacklist file: the data
\* files were not set up, or the blacklist file is there
NoFiles == [ path \in {} |-> [ readable |-> TRUE, lines |-> << >> ] ]
Disks ==
    { NoFiles,
      local_blacklist_file :> [ readable |-> TRUE, lines |-> TopPasswordLines ] }

\* the blacklists the default blacklist file loads: stripped, lowercased,
\* non-blank lines
LoadedBlacklists == { _load_blacklist(local_blacklist_file, disk) : disk \in Disks }

\* the passwords add_to_blacklist is called with, at most MaxAdds of them
MaxAdds == 1
AddablePasswords == { << >>, << "A","1" >> }

\* the passwords checked with the remote check enabled
HibpPasswords ==
    { << "3","C" >>,
      << "c","B","C","a" >>,
      << "a","1" >>,
      << "A","1" >> }

\* the bodies the remote service answers a query for password with
HibpLine(suffix, count) == suffix \o << ":" >> \o count
HibpBodies(password) ==
    LET own == SubSeq(upper(sha1_hexdigest(password)), 6, 40)
        other == SubSeq(upper(sha1_hexdigest(<< "p","a","s","s","w","o","r","d" >>)), 6, 40)
    IN  { << >>,
          HibpLine(other, << "7" >>) \o << "\n" >> \o HibpLine(own, << "4","2" >>),
          HibpLine(own, << "3",":","x" >>) \o << "\n" >>,
          own,
          HibpLine(lower(own), << "9" >>) \o << "\n" >> \o << "x","y" >> }

\* what requests.get does: the import fails, the call raises, or it returns
RemoteOutcomes(password) ==
    { [ kind |-> "ImportError" ],
      [ kind |-> "Exception", e |-> << "timeout" >> ],
      [ kind |-> "Exception", e |-> << "connection error" >> ],
      [ kind |-> "Response", status_code |-> 503, text |-> << >> ] }
    \cup { [ kind |-> "Response", status_code |-> 200, text |-> t ] : t \in HibpBodies(password) }

\* ------------------------------------------------------------------------
\* State
\* ------------------------------------------------------------------------

VARIABLES
    blacklist,         \* BreachChecker.blacklist
    dictionary_words,  \* PatternDetector.dictionary_words, in iteration order
    hibp_enabled,      \* BREACH_CONFIG["hibp_enabled"]
    loaded,            \* the blacklist as _load_blacklist left it
    added,             \* the passwords add_to_blacklist was called with
    pc,                \* the caller's position
    op,                \* the operation in progress
    args,              \* its arguments
    ev,                \* the local variables of evaluate and check_breach
    result,            \* the value returned, optional
    calls,             \* the components the operation has invoked, in order
    requests,          \* the requests the operation has sent
    sent,              \* every << password, request >> sent so far
    prev,              \* the caller's record of its last evaluate, optional
    threads,           \* the calls of the threads that share the evaluator
    blacklist_file,    \* BreachChecker.blacklist_file
    files,             \* the files on disk: the paths that exist, to their lines
    probe              \* a function applied on its own: its inputs and outputs, optional

vars == << blacklist, dictionary_words, hibp_enabled, loaded, added,
           pc, op, args, ev, result, calls, requests, sent, prev, threads,
           blacklist_file, files, probe >>

config == << dictionary_words, hibp_enabled, loaded >>

NoArgs == [ password |-> << >>, username |-> None, email |-> None ]

NoLocals ==
    [ pattern_issues |-> << >>, has_patterns |-> FALSE,
      entropy_bits |-> 0, char_classes |-> calculate_entropy(<< >>, FALSE)[2],
      outcome |-> None, is_breached |-> FALSE, breach_reason |-> None,
      score |-> 0, strength |-> "", recommendations |-> << >> ]

\* the threads that share one evaluator, each making one call at a time
NThreads == 2
Threads == 1..NThreads

\* a thread that has made no call; op is the operation a thread is in or was
\* last in, seen the shared state its call started from
IdleThread ==
    [ pc |-> "idle", op |-> "none", args |-> NoArgs, ev |-> NoLocals,
      result |-> None, seen |-> None ]

\* PasswordEvaluator.__init__ with the shipped configuration
Init ==
    /\ dictionary_words \in DictionaryOrders
    /\ blacklist_file = init_blacklist_file(None)
    /\ files \in Disks
    /\ loaded = _load_blacklist(blacklist_file, files)
    /\ threads = [ t \in Threads |-> IdleThread ]
    /\ probe = None
    /\ blacklist = loaded
    /\ hibp_enabled = FALSE
    /\ added = {}
    /\ pc = "idle"
    /\ op = "none"
    /\ args = NoArgs
    /\ ev = NoLocals
    /\ result = None
    /\ calls = << >>
    /\ requests = << >>
    /\ sent = {}
    /\ prev = None

\* the same with the remote check switched on and no dictionary file
InitHibp ==
    /\ dictionary_words = << >>
    /\ blacklist_file = init_blacklist_file(None)
    /\ files \in Disks
    /\ loaded = _load_blacklist(blacklist_file, files)
    /\ threads = [ t \in Threads |-> IdleThread ]
    /\ probe = None
    /\ blacklist = loaded
    /\ hibp_enabled = TRUE
    /\ added = {}
    /\ pc = "idle"
    /\ op = "none"
    /\ args = NoArgs
    /\ ev = NoLocals
    /\ result = None
    /\ calls = << >>
    /\ requests = << >>
    /\ sent = {}
    /\ prev = None

\* ------------------------------------------------------------------------
\* evaluator.py: PasswordEvaluator.evaluate, one step per component
\* ------------------------------------------------------------------------

\* the result for an empty password
EmptyResult ==
    [ score |-> 0,
      strength |-> "Weak",
      entropy_bits |-> 0,
      issues |-> << Rec("Password is empty") >>,
      recommendations |-> << Rec("Password cannot be empty") >>,
      is_breached |-> FALSE,
      breach_reason |-> None ]

\* evaluate without the early return for an empty password
EvaluateCall_unguarded(password, username, email) ==
    /\ pc = "idle"
    /\ IF prev = None THEN TRUE
       ELSE prev[1].args = [ password |-> password, username |-> username, email |-> email ]
    /\ op' = "evaluate"
    /\ args' = [ password |-> password, username |-> username, email |-> email ]
    /\ ev' = NoLocals
    /\ calls' = << >>
    /\ requests' = << >>
    /\ pc' = "detect_all"
    /\ result' = None
    /\ UNCHANGED << blacklist, dictionary_words, hibp_enabled, threads, probe, blacklist_file, files, loaded, added, sent, prev >>

\* a caller that kept its last evaluate repeats that call
EvaluateCall(password, username, email) ==
    /\ pc = "idle"
    /\ IF prev = None THEN TRUE
       ELSE prev[1].args = [ password |-> password, username |-> username, email |-> email ]
    /\ op' = "evaluate"
    /\ args' = [ password |-> password, username |-> username, email |-> email ]
    /\ ev' = NoLocals
    /\ calls' = << >>
    /\ requests' = << >>
    /\ IF Len(password) = 0
       THEN pc' = "returned" /\ result' = Some(EmptyResult)
       ELSE pc' = "detect_all" /\ result' = None
    /\ UNCHANGED << blacklist, dictionary_words, hibp_enabled, threads, probe, blacklist_file, files, loaded, added, sent, prev >>

\* a flag that ignores the pattern map
bool_never(pattern_issues) == FALSE

\* bool(pattern_issues)
bool(pattern_issues) == Len(pattern_issues) > 0

\* detect_all over a dictionary whose iteration order turns round at every pass
DetectAll_reordering ==
    /\ pc = "detect_all"
    /\ LET r == detect_all(args.password, args.username, args.email, dictionary_words) IN
       /\ calls' = Append(calls, [ fn |-> "detect_all" ])
       /\ IF r.raised
          THEN pc' = "raised" /\ ev' = ev
          ELSE /\ pc' = "calculate_entropy"
               /\ ev' = [ ev EXCEPT !.pattern_issues = r.value,
                                    !.has_patterns = bool(r.value) ]
    /\ dictionary_words' = Reverse(dictionary_words)
    /\ UNCHANGED << blacklist, hibp_enabled, threads, probe, blacklist_file, files, loaded, added,
                    op, args, result, requests, sent, prev >>

DetectAll ==
    /\ pc = "detect_all"
    /\ LET r == detect_all(args.password, args.username, args.email, dictionary_words) IN
       /\ calls' = Append(calls, [ fn |-> "detect_all" ])
       /\ IF r.raised
          THEN pc' = "raised" /\ ev' = ev
          ELSE /\ pc' = "calculate_entropy"
               /\ ev' = [ ev EXCEPT !.pattern_issues = r.value,
                                    !.has_patterns = bool(r.value) ]
    /\ UNCHANGED << blacklist, dictionary_words, hibp_enabled, threads, probe, blacklist_file, files, loaded, added,
                    op, args, result, requests, sent, prev >>

CalculateEntropy ==
    /\ pc = "calculate_entropy"
    /\ LET r == calculate_entropy(args.password, ev.has_patterns) IN
       ev' = [ ev EXCEPT !.entropy_bits = r[1], !.char_classes = r[2] ]
    /\ calls' = Append(calls, [ fn |-> "calculate_entropy", has_patterns |-> ev.has_patterns ])
    /\ pc' = "check_breach"
    /\ UNCHANGED << blacklist, dictionary_words, hibp_enabled, threads, probe, blacklist_file, files, loaded, added,
                    op, args, result, requests, sent, prev >>

\* what check_breach returns from the result of _check_hibp
hibp_return(hibp_result) ==
    IF hibp_result[1] THEN << TRUE, hibp_result[2] >> ELSE << FALSE, None >>

\* the requests _check_hibp has sent when requests.get ended in outcome: none
\* when the import failed
hibp_requests(password, outcome) ==
    IF outcome.kind = "ImportError" THEN << >> ELSE << hibp_request(password) >>

\* check_breach returns << is_breached, reason >>, to evaluate or to the caller
BreachReturn(is_breached, reason, outcome) ==
    /\ ev' = [ ev EXCEPT !.is_breached = is_breached, !.breach_reason = reason,
                         !.outcome = outcome ]
    /\ IF op = "evaluate"
       THEN pc' = "calculate_score" /\ result' = result
       ELSE pc' = "returned" /\ result' = Some(<< is_breached, reason >>)

\* check_breach querying the remote service before it looks at the blacklist
CheckBreach_remote_first ==
    /\ pc = "check_breach"
    /\ calls' = Append(calls, [ fn |-> "check_breach" ])
    /\ LET password_lower == lower(args.password) IN
       IF hibp_enabled
       THEN \E outcome \in RemoteOutcomes(args.password) :
                LET r == hibp_return(_check_hibp(args.password, outcome))
                    q == hibp_requests(args.password, outcome)
                IN  /\ requests' = requests \o q
                    /\ sent' = sent \cup { << args.password, q[k] >> : k \in 1..Len(q) }
                    /\ IF password_lower \in blacklist
                       THEN BreachReturn(TRUE, Some(LOCAL_REASON), None)
                       ELSE BreachReturn(r[1], r[2], Some(outcome))
       ELSE IF password_lower \in blacklist
       THEN BreachReturn(TRUE, Some(LOCAL_REASON), None) /\ UNCHANGED << requests, sent >>
       ELSE BreachReturn(FALSE, None, None) /\ UNCHANGED << requests, sent >>
    /\ UNCHANGED << blacklist, dictionary_words, hibp_enabled, threads, probe, blacklist_file, files, loaded, added,
                    op, args, prev >>

\* BreachChecker.check_breach, the remote query included
CheckBreach ==
    /\ pc = "check_breach"
    /\ calls' = Append(calls, [ fn |-> "check_breach" ])
    /\ LET password_lower == lower(args.password) IN
       IF password_lower \in blacklist
       THEN BreachReturn(TRUE, Some(LOCAL_REASON), None) /\ UNCHANGED << requests, sent >>
       ELSE IF hibp_enabled
       THEN \E outcome \in RemoteOutcomes(args.password) :
                LET r == hibp_return(_check_hibp(args.password, outcome))
                    q == hibp_requests(args.password, outcome)
                IN  /\ requests' = requests \o q
                    /\ sent' = sent \cup { << args.password, q[k] >> : k \in 1..Len(q) }
                    /\ BreachReturn(r[1], r[2], Some(outcome))
       ELSE BreachReturn(FALSE, None, None) /\ UNCHANGED << requests, sent >>
    /\ UNCHANGED << blacklist, dictionary_words, hibp_enabled, threads, probe, blacklist_file, files, loaded, added,
                    op, args, prev >>

CalculateScore ==
    /\ pc = "calculate_score"
    /\ ev' = [ ev EXCEPT !.score = calculate_score(ev.entropy_bits, ev.pattern_issues,
                                                   ev.is_breached, Len(args.password)) ]
    /\ calls' = Append(calls, [ fn |-> "calculate_score", entropy_bits |-> ev.entropy_bits,
                                pattern_issues |-> ev.pattern_issues,
                                is_breached |-> ev.is_breached ])
    /\ pc' = "classify_strength"
    /\ UNCHANGED << blacklist, dictionary_words, hibp_enabled, threads, probe, blacklist_file, files, loaded, added,
                    op, args, result, requests, sent, prev >>

ClassifyStrength ==
    /\ pc = "classify_strength"
    /\ ev' = [ ev EXCEPT !.strength = classify_strength(ev.score) ]
    /\ calls' = Append(calls, [ fn |-> "classify_strength" ])
    /\ pc' = "generate_recommendations"
    /\ UNCHANGED << blacklist, dictionary_words, hibp_enabled, threads, probe, blacklist_file, files, loaded, added,
                    op, args, result, requests, sent, prev >>

GenerateRecommendations ==
    /\ pc = "generate_recommendations"
    /\ ev' = [ ev EXCEPT !.recommendations =
                   generate_recommendations(ev.score, ev.strength, ev.entropy_bits,
                                            ev.pattern_issues, ev.is_breached,
                                            ev.char_classes, Len(args.password)) ]
    /\ calls' = Append(calls, [ fn |-> "generate_recommendations" ])
    /\ pc' = "format_issues"
    /\ UNCHANGED << blacklist, dictionary_words, hibp_enabled, threads, probe, blacklist_file, files, loaded, added,
                    op, args, result, requests, sent, prev >>

\* issues.extend(issue_list) for every item of pattern_issues
RECURSIVE extend_all(_, _)
extend_all(pattern_issues, k) ==
    IF k > Len(pattern_issues) THEN << >>
    ELSE pattern_issues[k][2] \o extend_all(pattern_issues, k + 1)

\* the issues list with the breach reason after the pattern issues
format_issues_reason_last(pattern_issues, is_breached, breach_reason) ==
    LET issues == extend_all(pattern_issues, 1)
                  \o (IF is_breached /\ Len(breach_reason) > 0 THEN breach_reason ELSE << >>)
    IN  IF Len(issues) = 0 THEN << Rec("No major issues detected") >> ELSE issues

format_issues(pattern_issues, is_breached, breach_reason) ==
    LET issues == (IF is_breached /\ Len(breach_reason) > 0 THEN breach_reason ELSE << >>)
                  \o extend_all(pattern_issues, 1)
    IN  IF Len(issues) = 0 THEN << Rec("No major issues detected") >> ELSE issues

\* the issues list is built and the result returned
FormatIssues ==
    /\ pc = "format_issues"
    /\ result' = Some([ score |-> ev.score,
                        strength |-> ev.strength,
                        entropy_bits |-> round2(ev.entropy_bits),
                        issues |-> format_issues(ev.pattern_issues, ev.is_breached,
                                                 ev.breach_reason),
                        recommendations |-> ev.recommendations,
                        is_breached |-> ev.is_breached,
                        breach_reason |-> ev.breach_reason ])
    /\ pc' = "returned"
    /\ UNCHANGED << blacklist, dictionary_words, hibp_enabled, threads, probe, blacklist_file, files, loaded, added,
                    op, args, ev, calls, requests, sent, prev >>

\* ------------------------------------------------------------------------
\* The other operations of the caller
\* ------------------------------------------------------------------------

\* BreachChecker.check_breach called directly
CheckBreachCall(password) ==
    /\ pc = "idle"
    /\ IF prev = None THEN TRUE ELSE prev[1].args.password = password
    /\ op' = "check_breach"
    /\ args' = [ password |-> password, username |-> None, email |-> None ]
    /\ ev' = NoLocals
    /\ calls' = << >>
    /\ requests' = << >>
    /\ result' = None
    /\ pc' = "check_breach"
    /\ UNCHANGED << blacklist, dictionary_words, hibp_enabled, threads, probe, blacklist_file, files, loaded, added, sent, prev >>

\* add_to_blacklist storing the password as given, not lowercased
AddToBlacklist_raw(password) ==
    /\ pc = "idle"
    /\ Cardinality(added \cup { password }) <= MaxAdds
    /\ blacklist' = blacklist \cup { password }
    /\ added' = added \cup { password }
    /\ op' = "add_to_blacklist"
    /\ args' = [ password |-> password, username |-> None, email |-> None ]
    /\ ev' = NoLocals
    /\ calls' = << >>
    /\ requests' = << >>
    /\ result' = None
    /\ pc' = "returned"
    /\ prev' = None
    /\ UNCHANGED << dictionary_words, hibp_enabled, threads, probe, blacklist_file, files, loaded, sent >>

\* BreachChecker.add_to_blacklist
AddToBlacklist(password) ==
    /\ pc = "idle"
    /\ Cardinality(added \cup { password }) <= MaxAdds
    /\ blacklist' = blacklist \cup { lower(password) }
    /\ added' = added \cup { password }
    /\ op' = "add_to_blacklist"
    /\ args' = [ password |-> password, username |-> None, email |-> None ]
    /\ ev' = NoLocals
    /\ calls' = << >>
    /\ requests' = << >>
    /\ result' = None
    /\ pc' = "returned"
    /\ prev' = None
    /\ UNCHANGED << dictionary_words, hibp_enabled, threads, probe, blacklist_file, files, loaded, sent >>

\* what the caller saw of the operation that ended
Outcome == [ raised |-> pc = "raised", result |-> result ]

\* the caller takes the outcome; it may keep that of an evaluate to compare
\* it with the outcome of the same call made again
Return ==
    /\ pc \in { "returned", "raised" }
    /\ pc' = "idle"
    /\ op' = "none"
    /\ args' = NoArgs
    /\ ev' = NoLocals
    /\ result' = None
    /\ calls' = << >>
    /\ requests' = << >>
    /\ IF op = "evaluate"
       THEN prev' \in { None, Some([ args |-> args, outcome |-> Outcome ]) }
       ELSE prev' = prev
    /\ UNCHANGED << blacklist, dictionary_words, hibp_enabled, threads, probe, blacklist_file, files, loaded, added, sent >>

Next ==
    \/ \E password \in Passwords, id \in Identities : EvaluateCall(password, id[1], id[2])
    \/ DetectAll
    \/ CalculateEntropy
    \/ CheckBreach
    \/ CalculateScore
    \/ ClassifyStrength
    \/ GenerateRecommendations
    \/ FormatIssues
    \/ \E password \in Passwords : CheckBreachCall(password)
    \/ \E password \in AddablePasswords : AddToBlacklist(password)
    \/ Return

Spec == Init /\ [][Next]_vars

NextHibp ==
    \/ \E password \in HibpPasswords : EvaluateCall(password, None, None)
    \/ DetectAll
    \/ CalculateEntropy
    \/ CheckBreach
    \/ CalculateScore
    \/ ClassifyStrength
    \/ GenerateRecommendations
    \/ FormatIssues
    \/ \E password \in HibpPasswords : CheckBreachCall(password)
    \/ \E password \in AddablePasswords : AddToBlacklist(password)
    \/ Return

SpecHibp == InitHibp /\ [][NextHibp]_vars

\* a checker with the remote check enabled or disabled, used through
\* check_breach and add_to_blacklist alone
InitBreach ==
    /\ dictionary_words = << >>
    /\ blacklist_file = init_blacklist_file(None)
    /\ files \in Disks
    /\ loaded = _load_blacklist(blacklist_file, files)
    /\ threads = [ t \in Threads |-> IdleThread ]
    /\ probe = None
    /\ blacklist = loaded
    /\ hibp_enabled \in BOOLEAN
    /\ added = {}
    /\ pc = "idle"
    /\ op = "none"
    /\ args = NoArgs
    /\ ev = NoLocals
    /\ result = None
    /\ calls = << >>
    /\ requests = << >>
    /\ sent = {}
    /\ prev = None

NextBreach ==
    \/ \E password \in HibpPasswords : CheckBreachCall(password)
    \/ CheckBreach
    \/ \E password \in AddablePasswords : AddToBlacklist(password)
    \/ Return

SpecBreach == InitBreach /\ [][NextBreach]_vars

\* the blacklist_file arguments a checker is built with: none, the default,
\* a file outside the data directory and a file inside it
CustomLines == << << "A","1","\n" >>, << "\n" >>, << "\t","3","c"," ","\n" >> >>
OtherLines == << << "a","a","\n" >> >>
BlacklistFileArgs ==
    { None,
      Some(local_blacklist_file),
      Some(<< "tmp", "custom.txt" >>),
      Some(<< DATA_DIR, "custom.txt" >>) }

\* the disks such a checker is built on: each of the three files is absent,
\* readable or not readable
FileStates(lines) ==
    { None, Some([ readable |-> TRUE, lines |-> lines ]), Some([ readable |-> FALSE, lines |-> lines ]) }
LoadDisks ==
    { [ path \in { q \in { << "tmp", "custom.txt" >>, << DATA_DIR, "custom.txt" >>, local_blacklist_file } :
                      ( IF q = << "tmp", "custom.txt" >> THEN a
                        ELSE IF q = local_blacklist_file THEN c ELSE b ) # None }
          |-> ( IF path = << "tmp", "custom.txt" >> THEN a
                ELSE IF path = local_blacklist_file THEN c ELSE b )[1] ] :
          a \in FileStates(CustomLines), b \in FileStates(OtherLines),
          c \in { None, Some([ readable |-> TRUE, lines |-> TopPasswordLines ]) } }

\* BreachChecker(blacklist_file = P) on a disk, the remote check enabled or not
InitLoad ==
    /\ dictionary_words = << >>
    /\ \E P \in BlacklistFileArgs : blacklist_file = init_blacklist_file(P)
    /\ files \in LoadDisks
    /\ loaded = _load_blacklist(blacklist_file, files)
    /\ threads = [ t \in Threads |-> IdleThread ]
    /\ probe = None
    /\ blacklist = loaded
    /\ hibp_enabled \in BOOLEAN
    /\ added = {}
    /\ pc = "idle"
    /\ op = "none"
    /\ args = NoArgs
    /\ ev = NoLocals
    /\ result = None
    /\ calls = << >>
    /\ requests = << >>
    /\ sent = {}
    /\ prev = None

NextLoad ==
    \/ \E password \in HibpPasswords : CheckBreachCall(password)
    \/ CheckBreach
    \/ Return

SpecLoad == InitLoad /\ [][NextLoad]_vars

\* ------------------------------------------------------------------------
\* evaluator.py: evaluate called by several threads on one evaluator
\* ------------------------------------------------------------------------

\* evaluate run from start to end on its own, with the remote check disabled
evaluate(password, username, email, the_blacklist, the_dictionary) ==
    IF Len(password) = 0
    THEN [ raised |-> FALSE, result |-> Some(EmptyResult) ]
    ELSE
    LET detected == detect_all(password, username, email, the_dictionary) IN
    IF detected.raised
    THEN [ raised |-> TRUE, result |-> None ]
    ELSE
    LET pattern_issues == detected.value
        has_patterns == bool(pattern_issues)
        entropy == calculate_entropy(password, has_patterns)
        is_breached == lower(password) \in the_blacklist
        breach_reason == IF is_breached THEN Some(LOCAL_REASON) ELSE None
        score == calculate_score(entropy[1], pattern_issues, is_breached, Len(password))
        strength == classify_strength(score)
    IN  [ raised |-> FALSE,
          result |-> Some([ score |-> score,
                            strength |-> strength,
                            entropy_bits |-> round2(entropy[1]),
                            issues |-> format_issues(pattern_issues, is_breached, breach_reason),
                            recommendations |->
                                generate_recommendations(score, strength, entropy[1],
                                                         pattern_issues, is_breached,
                                                         entropy[2], Len(password)),
                            is_breached |-> is_breached,
                            breach_reason |-> breach_reason ]) ]

\* the calls the threads make: << password, username, email >>
ThreadCalls ==
    { << << "p","a","s","s","w","o","r","d","1","2","3" >>, None, None >>,
      << << "a","a" >>, Some(<< "a","1" >>), None >>,
      << << "sup2","sup2","sup2","sup2" >>, None, None >> }

\* the variables of the evaluator and those the threads leave alone
evaluator_vars == << blacklist, dictionary_words, hibp_enabled, loaded, added, blacklist_file, files >>
caller_vars == << pc, op, args, ev, result, calls, requests, sent, prev, probe >>

\* the sets of the evaluator that every call reads
Shared == [ blacklist |-> blacklist, dictionary_words |-> dictionary_words ]

ThreadEvaluate(t, password, username, email) ==
    /\ threads[t].pc = "idle"
    /\ threads' = [ threads EXCEPT ![t] =
           [ pc |-> IF Len(password) = 0 THEN "returned" ELSE "detect_all",
             op |-> "evaluate",
             args |-> [ password |-> password, username |-> username, email |-> email ],
             ev |-> NoLocals,
             result |-> IF Len(password) = 0 THEN Some(EmptyResult) ELSE None,
             seen |-> Some(Shared) ] ]
    /\ UNCHANGED << evaluator_vars, caller_vars >>

ThreadCheckBreachCall(t, password) ==
    /\ threads[t].pc = "idle"
    /\ threads' = [ threads EXCEPT ![t] =
           [ pc |-> "check_breach",
             op |-> "check_breach",
             args |-> [ password |-> password, username |-> None, email |-> None ],
             ev |-> NoLocals,
             result |-> None,
             seen |-> Some(Shared) ] ]
    /\ UNCHANGED << evaluator_vars, caller_vars >>

\* detect_all over a dictionary whose iteration order turns round at every pass
ThreadDetectAll_reordering(t) ==
    /\ threads[t].pc = "detect_all"
    /\ LET th == threads[t]
           r == detect_all(th.args.password, th.args.username, th.args.email, dictionary_words)
       IN  threads' = [ threads EXCEPT ![t] =
               IF r.raised
               THEN [ th EXCEPT !.pc = "raised" ]
               ELSE [ th EXCEPT !.pc = "calculate_entropy",
                                !.ev = [ th.ev EXCEPT !.pattern_issues = r.value,
                                                      !.has_patterns = bool(r.value) ] ] ]
    /\ dictionary_words' = Reverse(dictionary_words)
    /\ UNCHANGED << blacklist, hibp_enabled, loaded, added, blacklist_file, files, caller_vars >>

ThreadDetectAll(t) ==
    /\ threads[t].pc = "detect_all"
    /\ LET th == threads[t]
           r == detect_all(th.args.password, th.args.username, th.args.email, dictionary_words)
       IN  threads' = [ threads EXCEPT ![t] =
               IF r.raised
               THEN [ th EXCEPT !.pc = "raised" ]
               ELSE [ th EXCEPT !.pc = "calculate_entropy",
                                !.ev = [ th.ev EXCEPT !.pattern_issues = r.value,
                                                      !.has_patterns = bool(r.value) ] ] ]
    /\ UNCHANGED << evaluator_vars, caller_vars >>

ThreadCalculateEntropy(t) ==
    /\ threads[t].pc = "calculate_entropy"
    /\ LET th == threads[t]
           r == calculate_entropy(th.args.password, th.ev.has_patterns)
       IN  threads' = [ threads EXCEPT ![t] =
               [ th EXCEPT !.pc = "check_breach",
                           !.ev = [ th.ev EXCEPT !.entropy_bits = r[1], !.char_classes = r[2] ] ] ]
    /\ UNCHANGED << evaluator_vars, caller_vars >>

\* check_breach with the remote check disabled, for evaluate or for the caller
ThreadCheckBreach(t) ==
    /\ threads[t].pc = "check_breach"
    /\ ~hibp_enabled
    /\ LET th == threads[t]
           is_breached == lower(th.args.password) \in blacklist
           reason == IF is_breached THEN Some(LOCAL_REASON) ELSE None
       IN  threads' = [ threads EXCEPT ![t] =
               [ th EXCEPT !.pc = IF th.op = "evaluate" THEN "calculate_score" ELSE "returned",
                           !.result = IF th.op = "evaluate" THEN th.result
                                      ELSE Some(<< is_breached, reason >>),
                           !.ev = [ th.ev EXCEPT !.is_breached = is_breached,
                                                 !.breach_reason = reason ] ] ]
    /\ UNCHANGED << evaluator_vars, caller_vars >>

ThreadCalculateScore(t) ==
    /\ threads[t].pc = "calculate_score"
    /\ LET th == threads[t] IN
       threads' = [ threads EXCEPT ![t] =
           [ th EXCEPT !.pc = "classify_strength",
                       !.ev = [ th.ev EXCEPT !.score =
                                  calculate_score(th.ev.entropy_bits, th.ev.pattern_issues,
                                                  th.ev.is_breached, Len(th.args.password)) ] ] ]
    /\ UNCHANGED << evaluator_vars, caller_vars >>

ThreadClassifyStrength(t) ==
    /\ threads[t].pc = "classify_strength"
    /\ LET th == threads[t] IN
       threads' = [ threads EXCEPT ![t] =
           [ th EXCEPT !.pc = "generate_recommendations",
                       !.ev = [ th.ev EXCEPT !.strength = classify_strength(th.ev.score) ] ] ]
    /\ UNCHANGED << evaluator_vars, caller_vars >>

ThreadGenerateRecommendations(t) ==
    /\ threads[t].pc = "generate_recommendations"
    /\ LET th == threads[t] IN
       threads' = [ threads EXCEPT ![t] =
           [ th EXCEPT !.pc = "format_issues",
                       !.ev = [ th.ev EXCEPT !.recommendations =
                                  generate_recommendations(th.ev.score, th.ev.strength,
                                                           th.ev.entropy_bits, th.ev.pattern_issues,
                                                           th.ev.is_breached, th.ev.char_classes,
                                                           Len(th.args.password)) ] ] ]
    /\ UNCHANGED << evaluator_vars, caller_vars >>

ThreadFormatIssues(t) ==
    /\ threads[t].pc = "format_issues"
    /\ LET th == threads[t] IN
       threads' = [ threads EXCEPT ![t] =
           [ th EXCEPT !.pc = "returned",
                       !.result = Some([ score |-> th.ev.score,
                                         strength |-> th.ev.strength,
                                         entropy_bits |-> round2(th.ev.entropy_bits),
                                         issues |-> format_issues(th.ev.pattern_issues,
                                                                  th.ev.is_breached,
                                                                  th.ev.breach_reason),
                                         recommendations |-> th.ev.recommendations,
                                         is_breached |-> th.ev.is_breached,
                                         breach_reason |-> th.ev.breach_reason ]) ] ]
    /\ UNCHANGED << evaluator_vars, caller_vars >>

\* the thread takes the outcome of its call
ThreadReturn(t) ==
    /\ threads[t].pc \in { "returned", "raised" }
    /\ threads' = [ threads EXCEPT ![t] = [ IdleThread EXCEPT !.op = threads[t].op ] ]
    /\ UNCHANGED << evaluator_vars, caller_vars >>

NextThreads ==
    \/ \E t \in Threads, c \in ThreadCalls : ThreadEvaluate(t, c[1], c[2], c[3])
    \/ \E t \in Threads, c \in ThreadCalls : ThreadCheckBreachCall(t, c[1])
    \/ \E t \in Threads : ThreadDetectAll(t)
    \/ \E t \in Threads : ThreadCalculateEntropy(t)
    \/ \E t \in Threads : ThreadCheckBreach(t)
    \/ \E t \in Threads : ThreadCalculateScore(t)
    \/ \E t \in Threads : ThreadClassifyStrength(t)
    \/ \E t \in Threads : ThreadGenerateRecommendations(t)
    \/ \E t \in Threads : ThreadFormatIssues(t)
    \/ \E t \in Threads : ThreadReturn(t)

SpecThreads == Init /\ [][NextThreads]_vars

\* ------------------------------------------------------------------------
\* Functions applied on their own
\* ------------------------------------------------------------------------

\* an evaluator built without data files, before any call, with the inputs of
\* a function in probe
InitProbe(inputs) ==
    /\ dictionary_words = << >>
    /\ blacklist_file = init_blacklist_file(None)
    /\ files = NoFiles
    /\ loaded = _load_blacklist(blacklist_file, files)
    /\ threads = [ t \in Threads |-> IdleThread ]
    /\ probe \in { Some([ in |-> i, out |-> None ]) : i \in inputs }
    /\ blacklist = loaded
    /\ hibp_enabled = FALSE
    /\ added = {}
    /\ pc = "idle"
    /\ op = "none"
    /\ args = NoArgs
    /\ ev = NoLocals
    /\ result = None
    /\ calls = << >>
    /\ requests = << >>
    /\ sent = {}
    /\ prev = None

\* the variables a function applied on its own leaves alone
call_vars == << pc, op, args, ev, result, calls, requests, sent, prev, threads >>

\* calculate_entropy for two passwords with one flag, and for the first
\* password with the other flag
EntropyInputs ==
    { [ password |-> a, other |-> b, has_patterns |-> f ] :
          a \in Passwords, b \in Passwords, f \in BOOLEAN }

ApplyCalculateEntropy ==
    /\ probe # None
    /\ probe[1].out = None
    /\ LET i == probe[1].in IN
       probe' = Some([ in |-> i,
                       out |-> Some([ password |-> calculate_entropy(i.password, i.has_patterns),
                                      other |-> calculate_entropy(i.other, i.has_patterns),
                                      flipped |-> calculate_entropy(i.password, ~i.has_patterns) ]) ])
    /\ UNCHANGED << evaluator_vars, call_vars >>

SpecEntropy == InitProbe(EntropyInputs) /\ [][ApplyCalculateEntropy]_vars

\* the entropies calculate_score is applied to: every whole number of bits up
\* to MaxBits, and the millionths around the ends of the segments
MaxBits == 90
ScoreEntropies ==
    { k * Micro : k \in (-1)..MaxBits }
    \cup { b * Micro + d : b \in { 0, 20, 40, 60, 80 }, d \in { -1, 1, 499999, 500000 } }

\* the pattern maps calculate_score is applied to: no category, each category
\* alone, a category with three issues, a key with an empty list, two
\* categories with several issues, all eight, and a key that is no category
ScoreIssue == Rec("issue")
ScoreMaps ==
    { << >>,
      << << "dictionary_word", << ScoreIssue, ScoreIssue, ScoreIssue >> >> >>,
      << << "repeated_chars", << >> >> >>,
      << << "leetspeak", << ScoreIssue, ScoreIssue >> >>,
         << "year_pattern", << ScoreIssue, ScoreIssue >> >> >>,
      [ k \in 1..Len(Categories) |-> << Categories[k], << ScoreIssue >> >> ],
      << << "other", << ScoreIssue >> >> >> }
    \cup { << << Categories[k], << ScoreIssue >> >> >> : k \in 1..Len(Categories) }

ScoreLengths == { 0, 7, 8, 11, 12, 15, 16, 20 }

\* calculate_score for an entropy, a pattern map and a length; and with no
\* pattern and no length for that entropy and for the next whole bit
ScoreInputs ==
    { [ entropy_bits |-> e, pattern_issues |-> m, is_breached |-> FALSE, length |-> n ] :
          e \in ScoreEntropies, m \in ScoreMaps, n \in ScoreLengths }

ApplyCalculateScore ==
    /\ probe # None
    /\ probe[1].out = None
    /\ LET i == probe[1].in IN
       probe' = Some([ in |-> i,
                       out |-> Some([ score |-> calculate_score(i.entropy_bits, i.pattern_issues,
                                                                i.is_breached, i.length),
                                      base |-> calculate_score(i.entropy_bits, << >>, FALSE, 0),
                                      next |-> calculate_score(i.entropy_bits + Micro, << >>,
                                                               FALSE, 0) ]) ])
    /\ UNCHANGED << evaluator_vars, call_vars >>

SpecScore == InitProbe(ScoreInputs) /\ [][ApplyCalculateScore]_vars

\* the character class maps generate_recommendations is applied to
RecommendClasses ==
    { [ has_lower |-> l, has_upper |-> u, has_digit |-> TRUE, has_special |-> u ] :
          l \in BOOLEAN, u \in BOOLEAN }

\* generate_recommendations for a tier, an entropy on either side of
\* MIN_ENTROPY_BITS, a pattern map, a class map and a length of each tier
RecommendInputs ==
    { [ score |-> 50, strength |-> t, entropy_bits |-> e, pattern_issues |-> m,
        is_breached |-> b, char_classes |-> c, length |-> n ] :
          t \in { "Weak", "Strong" }, e \in { 15 * Micro, 45 * Micro }, m \in ScoreMaps,
          b \in BOOLEAN, c \in RecommendClasses, n \in { 7, 10, 12 } }

ApplyGenerateRecommendations ==
    /\ probe # None
    /\ probe[1].out = None
    /\ LET i == probe[1].in IN
       probe' = Some([ in |-> i,
                       out |-> Some(generate_recommendations(i.score, i.strength, i.entropy_bits,
                                                             i.pattern_issues, i.is_breached,
                                                             i.char_classes, i.length)) ])
    /\ UNCHANGED << evaluator_vars, call_vars >>

SpecRecommend == InitProbe(RecommendInputs) /\ [][ApplyGenerateRecommendations]_vars

\* the passwords the sequential detector is applied to: every window of
\* min_sequence_length characters over WindowSigma, every password of up to
\* MaxWindows windows over RunSigma, and the sample passwords
MaxWindows == 2
WindowSigma == { "a", "b", "c", "d", "B", "z", "8", "9", "0", "1", "sup2", "@" }
RunSigma == { "a", "b", "c", "d", "e" }
SequentialInputs ==
    [ 1..PATTERN_THRESHOLDS.min_sequence_length -> WindowSigma ]
    \cup SeqsUpTo(RunSigma, PATTERN_THRESHOLDS.min_sequence_length - 1 + MaxWindows)
    \cup SamplePasswords
    \cup { << "7","8","9","0","1","2" >>, << "2","1","0","9","8","7" >>,
           << "x","y","z","a","b","c" >>, << "1","2","3","4","sup2","sup2","sup2","sup2" >> }

ApplyDetectSequentialChars ==
    /\ probe # None
    /\ probe[1].out = None
    /\ probe' = Some([ in |-> probe[1].in, out |-> Some(_detect_sequential_chars(probe[1].in)) ])
    /\ UNCHANGED << evaluator_vars, call_vars >>

SpecSequential == InitProbe(SequentialInputs) /\ [][ApplyDetectSequentialChars]_vars

\* the passwords the keyboard detector is applied to: every window of
\* min_keyboard_pattern_length characters over KeySigma, every password of up
\* to MaxWindows windows over KeyRunSigma, and column reads
KeySigma == { "q", "w", "e", "r", "Q", "a", "z", "1", "2", "3", "4", "0" }
KeyRunSigma == { "q", "w", "e", "r", "t" }
KeyboardInputs ==
    [ 1..PATTERN_THRESHOLDS.min_keyboard_pattern_length -> KeySigma ]
    \cup SeqsUpTo(KeyRunSigma, PATTERN_THRESHOLDS.min_keyboard_pattern_length - 1 + MaxWindows)
    \cup { << "q","a","z" >>, << "q","a","z","w","s","x" >>, << "p","o","i","u","y" >>,
           << "7","8","9","0" >>, << "m","n","b","v" >> }

\* detect_all hands the lowercased password to the keyboard detector
ApplyDetectKeyboardPatterns ==
    /\ probe # None
    /\ probe[1].out = None
    /\ probe' = Some([ in |-> probe[1].in,
                       out |-> Some(_detect_keyboard_patterns(lower(probe[1].in))) ])
    /\ UNCHANGED << evaluator_vars, call_vars >>

SpecKeyboard == InitProbe(KeyboardInputs) /\ [][ApplyDetectKeyboardPatterns]_vars

\* the dictionaries the dictionary detector is applied with: every iteration
\* order of up to MaxWords of these words
MaxWords == 3
DictionaryWords ==
    { << "p","a","s","s" >>, << "p","a","s","s","w","o","r","d" >>, << "a","b","c" >>,
      << "a","b","c","d" >>, << "a","b","c","d","'","e" >> }
WordOrders ==
    { w \in UNION { [ 1..k -> DictionaryWords ] : k \in 0..MaxWords } :
          \A i, j \in 1..Len(w) : w[i] = w[j] => i = j }
DictionaryPasswords ==
    { << >>, << "a","b","c" >>, << "a","b","c","d" >>, << "A","B","C","D" >>,
      << "a","b","c","d","'","e" >>, << "p","a","s","s" >>, << "P","a","s","s","w","o","r","d" >>,
      << "x","p","a","s","s","a","b","c","d","'","e" >>, << "p","a","s","1","2","3" >> }
DictionaryInputs ==
    { [ password |-> p, dictionary_words |-> w ] : p \in DictionaryPasswords, w \in WordOrders }

\* detect_all hands the lowercased password to the dictionary detector
ApplyDetectDictionaryWords ==
    /\ probe # None
    /\ probe[1].out = None
    /\ probe' = Some([ in |-> probe[1].in,
                       out |-> Some(_detect_dictionary_words(lower(probe[1].in.password),
                                                             probe[1].in.dictionary_words)) ])
    /\ UNCHANGED << evaluator_vars, call_vars >>

SpecDictionary == InitProbe(DictionaryInputs) /\ [][ApplyDetectDictionaryWords]_vars

\* the passwords the year detector is applied to: every password of up to
\* MaxYearLen characters over YearSigma, and longer samples
MaxYearLen == 6
YearSigma == { "1", "9", "2", "0", "a" }
YearInputs ==
    SeqsUpTo(YearSigma, MaxYearLen)
    \cup SamplePasswords
    \cup { << "1","9","9","9","2","0","2","5" >>, << "x","2","0","9","9","y","1","8","9","9" >>,
           << "2","1","0","0" >>, << "7","1","9","8","4","1","9","8","4" >>,
           << "sup2","1","9","8","4" >> }

ApplyDetectYearPatterns ==
    /\ probe # None
    /\ probe[1].out = None
    /\ probe' = Some([ in |-> probe[1].in, out |-> Some(_detect_year_patterns(probe[1].in)) ])
    /\ UNCHANGED << evaluator_vars, call_vars >>

SpecYear == InitProbe(YearInputs) /\ [][ApplyDetectYearPatterns]_vars

\* the passwords the leetspeak detector is applied to: every password of up
\* to MaxLeetLen characters over LeetSigma, the five words plain, substituted,
\* cut short and inside a longer password, and ratios around 0.3
MaxLeetLen == 4
LeetSigma == { "4", "@", "!", "2", "a", "L" }
LeetInputs ==
    SeqsUpTo(LeetSigma, MaxLeetLen)
    \cup SamplePasswords
    \cup { << x, "d","m", y, "n" >> : x \in { "a", "@", "4" }, y \in { "i", "1", "!" } }
    \cup { << "P", x, "s","s","w", y, "r","d" >> : x \in { "a", "@", "4" }, y \in { "o", "0" } }
    \cup { << "p", "a", x, x, "w", "o", "r","d" >> : x \in { "5", "$" } }
    \cup { << x, y, "v", z >> : x \in { "l", "1", "i" }, y \in { "o", "0" }, z \in { "e", "3" } }
    \cup { << x, "a","c","k" >> : x \in { "h", "4", "H" } }
    \cup { << "x", x, "e","s","t","y" >> : x \in { "t", "7", "+" } }
    \cup { << "a","d","m","i" >>, << "t","e","s" >>,
           << "a","d","m","i","n","h","a","c","k","t","e","s","t" >>,
           << "4","4","4","a","a","a","a","a","a","a" >>,
           << "4","4","4","4","a","a","a","a","a","a" >>,
           << "7","$","5","0","3","1","a","a","a","a","a","a","a","a","a","a","a","a","a","a" >>,
           << "7","$","5","0","3","1","!","a","a","a","a","a","a","a","a","a","a","a","a","a" >> }

\* detect_all hands the lowercased password to the leetspeak detector
ApplyDetectLeetspeak ==
    /\ probe # None
    /\ probe[1].out = None
    /\ probe' = Some([ in |-> probe[1].in, out |-> Some(_detect_leetspeak(lower(probe[1].in))) ])
    /\ UNCHANGED << evaluator_vars, call_vars >>

SpecLeetspeak == InitProbe(LeetInputs) /\ [][ApplyDetectLeetspeak]_vars

\* the passwords the repeated-character detector is applied to: every
\* password of up to MaxRepeatLen characters over RepeatSigma, and samples
MaxRepeatLen == 7
RepeatSigma == { "a", "A", "1" }
RepeatInputs == SeqsUpTo(RepeatSigma, MaxRepeatLen) \cup SamplePasswords

ApplyDetectRepeatedChars ==
    /\ probe # None
    /\ probe[1].out = None
    /\ probe' = Some([ in |-> probe[1].in, out |-> Some(_detect_repeated_chars(probe[1].in)) ])
    /\ UNCHANGED << evaluator_vars, call_vars >>

SpecRepeated == InitProbe(RepeatInputs) /\ [][ApplyDetectRepeatedChars]_vars

\* the calls the username detector is applied to: every password of up to
\* MaxIdLen characters over IdSigma and samples, with usernames and emails
\* absent, empty, contained, similar and unrelated
MaxIdLen == 3
IdSigma == { "a", "J", "1" }
IdPasswords ==
    SeqsUpTo(IdSigma, MaxIdLen)
    \cup { << "j","o","h","n","s","m","i","t","h","1","2","3" >>, << "J","o","h","n" >>,
           << "x","k","9","#" >>, << "a","x","a","x" >> }
IdUsernames ==
    { None, Some(<< >>), Some(<< "a" >>), Some(<< "A","1" >>), Some(<< "j","1" >>),
      Some(<< "J","o","h","n","S","m","i","t","h" >>), Some(<< "a","a","x","x" >>) }
IdEmails ==
    { None, Some(<< >>), Some(<< "@","a" >>), Some(<< "a","@","x" >>), Some(<< "a","1" >>),
      Some(<< "J","o","h","n","@","x" >>), Some(<< "A","@","1","@" >>) }
UsernameInputs ==
    { [ password |-> p, username |-> u, email |-> e ] :
          p \in IdPasswords, u \in IdUsernames, e \in IdEmails }

\* the detector, and the penalty the scorer takes for the category when
\* detect_all has kept it
ApplyDetectUsernameSimilarity ==
    /\ probe # None
    /\ probe[1].out = None
    /\ LET i == probe[1].in
           issues == _detect_username_similarity(i.password, i.username, i.email)
           kept == SelectSeq(<< << "username_similarity", issues >> >>, LAMBDA item : Len(item[2]) > 0)
       IN  probe' = Some([ in |-> i,
                           out |-> Some([ issues |-> issues, penalty |-> penalties(kept, 1) ]) ])
    /\ UNCHANGED << evaluator_vars, call_vars >>

SpecUsername == InitProbe(UsernameInputs) /\ [][ApplyDetectUsernameSimilarity]_vars

\* the passwords the low-variety detector is applied to: every password of
\* up to MaxVarietyLen characters over VarietySigma, and passwords of three
\* and six distinct characters around the ratio 0.3
MaxVarietyLen == 10
VarietySigma == { "a", "B" }
VarietyInputs ==
    SeqsUpTo(VarietySigma, MaxVarietyLen)
    \cup SamplePasswords
    \cup { << "a","b","c","a","b","c","a","b","c","a" >>,
           << "a","b","c","a","b","c","a","b","c","a","b" >>,
           << "a","b","c","a","b","c","a","b","c" >>,
           << "a","A","a","A","a","A","a" >>,
           << "a","b","c","d","e","f","a","b","c","d","e","f","a","b","c","d","e","f","a","b" >>,
           << "a","b","c","d","e","f","a","b","c","d","e","f","a","b","c","d","e","f","a","b","c" >> }

ApplyDetectLowVariety ==
    /\ probe # None
    /\ probe[1].out = None
    /\ probe' = Some([ in |-> probe[1].in, out |-> Some(_detect_low_variety(probe[1].in)) ])
    /\ UNCHANGED << evaluator_vars, call_vars >>

SpecVariety == InitProbe(VarietyInputs) /\ [][ApplyDetectLowVariety]_vars

\* the passwords the class flags are computed for: every password of up to
\* MaxClassLen characters over a letter of each case, a digit, symbols, a
\* space and non-ASCII characters
MaxClassLen == 2
ClassSigma == { "a", "A", "1", "!", "grave", " ", "sup2", "auml" }
ClassInputs ==
    { [ password |-> p, has_patterns |-> f ] :
          p \in SeqsUpTo(ClassSigma, MaxClassLen) \cup SamplePasswords, f \in BOOLEAN }

ApplyCharClasses ==
    /\ probe # None
    /\ probe[1].out = None
    /\ probe' = Some([ in |-> probe[1].in,
                       out |-> Some(calculate_entropy(probe[1].in.password,
                                                      probe[1].in.has_patterns)) ])
    /\ UNCHANGED << evaluator_vars, call_vars >>

SpecClasses == InitProbe(ClassInputs) /\ [][ApplyCharClasses]_vars

\* ------------------------------------------------------------------------
\* Properties
\* ------------------------------------------------------------------------

\* operation o has returned to the caller
Returned(o) == pc = "returned" /\ op = o

\* C1: every result evaluate returns has an integer score between 0 and 100,
\* and its strength is "Weak" iff score < 40, "Medium" iff 40 <= score < 60,
\* "Strong" iff 60 <= score < 80, "Very Strong" iff score >= 80.
C1_ScoreRangeAndStrength ==
    Returned("evaluate") =>
        LET r == result[1] IN
        /\ r.score \in 0..100
        /\ r.strength \in { "Weak", "Medium", "Strong", "Very Strong" }
        /\ (r.strength = "Weak") <=> (r.score < 40)
        /\ (r.strength = "Medium") <=> (40 <= r.score /\ r.score < 60)
        /\ (r.strength = "Strong") <=> (60 <= r.score /\ r.score < 80)
        /\ (r.strength = "Very Strong") <=> (r.score >= 80)

\* evaluate returned a result of the second tier for a password with a
\* detected pattern
C1_Witness ==
    /\ Returned("evaluate")
    /\ result[1].strength = "Medium"
    /\ ev.has_patterns

\* C2: when the breach checker reports the password breached, calculate_score
\* gives 0 whatever the entropy, the pattern map and the length are, and the
\* result of evaluate has score 0, strength "Weak" and the single
\* compromised-password recommendation.
C2_BreachedScoresZero ==
    /\ (/\ op = "evaluate"
        /\ pc \in { "classify_strength", "generate_recommendations", "format_issues" }
        /\ ev.is_breached)
       => ev.score = 0
    /\ (Returned("evaluate") /\ result[1].is_breached)
       => /\ result[1].score = 0
          /\ result[1].strength = "Weak"
          /\ result[1].recommendations =
                 << Rec("This password has been compromised in a data breach. Use a completely different password.") >>

\* evaluate returned for a breached password of more than 100 bits of entropy
C2_Witness ==
    /\ Returned("evaluate")
    /\ result[1].is_breached
    /\ ev.entropy_bits > 100 * Micro
    /\ Len(args.password) >= 16

\* C3: evaluate raises no exception, whatever the password is.
C3_NeverRaises == ~(op = "evaluate" /\ pc = "raised")

\* the passwords add_to_blacklist was called with, lowercased
Lowered(S) == { lower(password) : password \in S }

\* C4: with the remote check disabled, check_breach(p) returns true with the
\* local-blacklist reason iff lowercase(p) is in the loaded blacklist or among
\* the lowercased added passwords, and false with no reason otherwise; the
\* blacklist is always the loaded one plus the lowercased added passwords, so
\* check_breach and evaluate do not change it and an added password stays
\* breached.
C4_BlacklistMembership ==
    /\ blacklist = loaded \cup Lowered(added)
    /\ (Returned("check_breach") /\ ~hibp_enabled)
       => result[1] = IF lower(args.password) \in loaded \cup Lowered(added)
                      THEN << TRUE, Some(LOCAL_REASON) >>
                      ELSE << FALSE, None >>

\* check_breach reported a password breached that was added in another case
C4_Witness ==
    /\ Returned("check_breach")
    /\ ~hibp_enabled
    /\ result[1][1]
    /\ args.password \notin added
    /\ lower(args.password) \notin loaded
    /\ lower(args.password) \in Lowered(added)

\* C5: with the remote check enabled and the password not in the local
\* blacklist, when the remote query fails (the HTTP library is missing, the
\* request times out or the connection fails) check_breach returns false
\* together with a non-null diagnostic reason.
C5_FailureHasDiagnostic ==
    (/\ Returned("check_breach")
     /\ hibp_enabled
     /\ lower(args.password) \notin blacklist
     /\ ev.outcome # None
     /\ ev.outcome[1].kind \in { "ImportError", "Exception" })
    => /\ result[1][1] = FALSE
       /\ result[1][2] # None

\* the two halves of the uppercase hex SHA-1 digest of the raw password
digest_prefix(password) == SubSeq(upper(sha1_hexdigest(password)), 1, 5)
digest_suffix(password) == SubSeq(upper(sha1_hexdigest(password)), 6, 40)

\* a line of the response carries the suffix before its first colon
SuffixListed(text, suffix) ==
    \E line \in Range(splitlines(text)) :
        ":" \in Range(line) /\ split_colon(line)[1] = suffix

\* C6: every request sent to the remote service is the GET of the service URL
\* followed by the first 5 characters of the uppercase hex SHA-1 digest of the
\* raw password, so two passwords that share the prefix send the same request;
\* the part after the service URL holds neither the password, nor the digest
\* (in either case), nor its 35-character suffix; and the verdict of a query
\* that was answered is the comparison of that suffix with the response lines.
C6_PrefixOnly ==
    /\ \A x \in sent :
          /\ x[2] = [ method |-> "GET", timeout |-> 5,
                      url |-> << hibp_api_url >> \o digest_prefix(x[1]) ]
          /\ ~Contains(Tail(x[2].url), x[1])
          /\ ~Contains(Tail(x[2].url), sha1_hexdigest(x[1]))
          /\ ~Contains(Tail(x[2].url), upper(sha1_hexdigest(x[1])))
          /\ ~Contains(Tail(x[2].url), digest_suffix(x[1]))
    /\ \A x \in sent : \A y \in sent :
          (digest_prefix(x[1]) = digest_prefix(y[1])) => (x[2] = y[2])
    /\ \A k \in 1..Len(requests) : << args.password, requests[k] >> \in sent
    /\ (/\ Returned("check_breach")
        /\ ev.outcome # None
        /\ ev.outcome[1].kind = "Response")
       => /\ Len(requests) = 1
          /\ result[1][1] = (/\ ev.outcome[1].status_code = 200
                             /\ SuffixListed(ev.outcome[1].text, digest_suffix(args.password)))

\* two different passwords have sent the same request, and check_breach
\* returned breached from a response that lists the suffix of its password
C6_Witness ==
    /\ \E x \in sent : \E y \in sent : x[1] # y[1] /\ x[2] = y[2]
    /\ Returned("check_breach")
    /\ ev.outcome # None
    /\ result[1][1]

\* C7: with the remote check disabled, an evaluate call that repeats the
\* caller's last evaluate call (same password, username and email, no
\* add_to_blacklist in between) ends as that call did, with an identical
\* result, the order of issues and recommendations included.
C7_RepeatIsIdentical ==
    (/\ op = "evaluate"
     /\ pc \in { "returned", "raised" }
     /\ ~hibp_enabled
     /\ prev # None)
    => /\ prev[1].args = args
       /\ Outcome = prev[1].outcome

\* evaluate returned for the second time for a password that is not breached
\* and holds both words of a two-word dictionary
C7_Witness ==
    /\ Returned("evaluate")
    /\ prev # None
    /\ ~result[1].is_breached
    /\ Len(dictionary_words) = 2
    /\ \A k \in 1..2 : Contains(lower(args.password), dictionary_words[k])
    /\ Len(result[1].issues) >= 2
    /\ Len(result[1].recommendations) >= 2

\* the components of evaluate in their order
ComponentOrder ==
    << "detect_all", "calculate_entropy", "check_breach",
       "calculate_score", "classify_strength", "generate_recommendations" >>

\* C8: evaluate invokes the components in the order detect_all,
\* calculate_entropy, check_breach, calculate_score, classify_strength,
\* generate_recommendations, each once by the time it returns a result for a
\* non-empty password; calculate_entropy receives has_patterns = true iff
\* detect_all returned at least one category; calculate_score receives the
\* unrounded entropy of that call and the whole pattern map; for an empty
\* password no component is invoked and no request is sent.
C8_FixedOrder ==
    (op = "evaluate") =>
        /\ Len(calls) <= 6
        /\ \A k \in 1..Len(calls) : calls[k].fn = ComponentOrder[k]
        /\ (Len(calls) >= 2) => (calls[2].has_patterns <=> (Len(ev.pattern_issues) >= 1))
        /\ (Len(calls) >= 4) =>
               /\ calls[4].entropy_bits =
                      calculate_entropy(args.password, calls[2].has_patterns)[1]
               /\ calls[4].pattern_issues =
                      detect_all(args.password, args.username, args.email,
                                 dictionary_words).value
        /\ (pc = "returned") =>
               IF Len(args.password) = 0
               THEN calls = << >> /\ requests = << >>
               ELSE Len(calls) = 6

\* evaluate returned for a breached password with a detected pattern whose
\* entropy is not a whole number of hundredths of a bit
C8_Witness ==
    /\ Returned("evaluate")
    /\ Len(calls) = 6
    /\ calls[2].has_patterns
    /\ calls[4].is_breached
    /\ calls[4].entropy_bits % 10000 # 0

\* C9: evaluate of the empty password returns score 0, strength "Weak",
\* entropy_bits 0.0, issues ["Password is empty"], is_breached false and no
\* breach reason, whatever the username, the email, the blacklist and the
\* dictionary are; it returns at once.
C9_EmptyPassword ==
    (op = "evaluate" /\ Len(args.password) = 0) =>
        /\ pc = "returned"
        /\ result[1].score = 0
        /\ result[1].strength = "Weak"
        /\ result[1].entropy_bits = 0
        /\ result[1].issues = << Rec("Password is empty") >>
        /\ result[1].is_breached = FALSE
        /\ result[1].breach_reason = None

\* evaluate of the empty password returned while the empty password is in the
\* blacklist, the dictionary has words and a username was given
C9_Witness ==
    /\ Returned("evaluate")
    /\ Len(args.password) = 0
    /\ << >> \in blacklist
    /\ Len(dictionary_words) > 0
    /\ args.username # None

\* the issues of every detector for the arguments of the call, in the order
\* repeated_chars, sequential_chars, keyboard_pattern, leetspeak,
\* dictionary_word, year_pattern, username_similarity, low_variety
CategoryIssues ==
    _detect_repeated_chars(args.password)
    \o _detect_sequential_chars(args.password).issues
    \o _detect_keyboard_patterns(lower(args.password))
    \o _detect_leetspeak(lower(args.password))
    \o _detect_dictionary_words(lower(args.password), dictionary_words)
    \o _detect_year_patterns(args.password)
    \o _detect_username_similarity(args.password, args.username, args.email)
    \o _detect_low_variety(args.password)

\* C10: for a non-empty password the issues of the result are the breach
\* reason (when breached) followed by the issues of every category in the
\* canonical order, each category's issues in detector order; the list is
\* ["No major issues detected"] iff the password is not breached and no
\* category is present.
C10_IssuesOrder ==
    (Returned("evaluate") /\ Len(args.password) > 0) =>
        LET r == result[1]
            reason == IF r.is_breached THEN r.breach_reason ELSE << >>
        IN  /\ (r.issues = << Rec("No major issues detected") >>)
                   <=> (~r.is_breached /\ CategoryIssues = << >>)
            /\ (r.is_breached \/ CategoryIssues # << >>)
                   => (r.issues = reason \o CategoryIssues)
            /\ r.is_breached => r.breach_reason # None

\* evaluate returned for a breached password with two categories or more
C10_Witness ==
    /\ Returned("evaluate")
    /\ result[1].is_breached
    /\ Len(ev.pattern_issues) >= 2
    /\ Len(result[1].issues) >= 3

\* the password of the first usage example
password123 == << "p","a","s","s","w","o","r","d","1","2","3" >>

\* C11: evaluate("password123") with no username and no email gives strength
\* "Weak" and no sequential_chars issue whatever dictionary and blacklist the
\* evaluator was built with, and a dictionary_word issue whenever "password"
\* is in the dictionary.
C11_Password123Weak ==
    (/\ Returned("evaluate")
     /\ args = [ password |-> password123, username |-> None, email |-> None ])
    => /\ result[1].strength = "Weak"
       /\ ~HasKey(ev.pattern_issues, "sequential_chars")
       /\ (<< "p","a","s","s","w","o","r","d" >> \in Range(dictionary_words))
              => HasKey(ev.pattern_issues, "dictionary_word")

\* what thread t saw of its call that ended
ThreadOutcome(t) == [ raised |-> threads[t].pc = "raised", result |-> threads[t].result ]

\* C12: no step of an evaluate or check_breach call changes the blacklist or
\* the dictionary, and, whatever the interleaving of the calls of the threads
\* that share the evaluator (remote check disabled, no add_to_blacklist),
\* every evaluate call ends as it would have when run alone from the state it
\* started in, and every check_breach call returns the membership in the
\* blacklist it started from.
C12_CallsDoNotInterfere ==
    /\ [][blacklist' = blacklist /\ dictionary_words' = dictionary_words]_vars
    /\ [](\A t \in Threads :
            (threads[t].pc \in { "returned", "raised" }) =>
                LET th == threads[t] IN
                IF th.op = "evaluate"
                THEN ThreadOutcome(t) =
                         evaluate(th.args.password, th.args.username, th.args.email,
                                  th.seen[1].blacklist, th.seen[1].dictionary_words)
                ELSE th.result[1][1] = (lower(th.args.password) \in th.seen[1].blacklist))

\* one thread's evaluate has returned several issues while the other thread
\* is in the middle of an evaluate of another password
C12_Witness ==
    /\ threads[1].op = "evaluate"
    /\ threads[1].pc = "returned"
    /\ Len(threads[1].result[1].issues) >= 3
    /\ threads[2].op = "evaluate"
    /\ threads[2].pc = "check_breach"
    /\ threads[2].args # threads[1].args

\* the stepwise evaluate of the single caller ends as evaluate run on its own
StepwiseIsEvaluate ==
    (op = "evaluate" /\ pc \in { "returned", "raised" }) =>
        Outcome = evaluate(args.password, args.username, args.email, blacklist, dictionary_words)

\* the four class flags of a calculate_entropy result
ClassFlags(r) == << r[2].has_lower, r[2].has_upper, r[2].has_digit, r[2].has_special >>

\* C13: for two passwords with the same present character classes and the
\* same has_patterns flag the longer one never has the smaller entropy; for
\* one password the entropy with has_patterns = true is the entropy without,
\* times 0.7 (to the millionth of a bit), so never larger; the entropy is
\* never negative.
C13_EntropyMonotone ==
    (probe # None /\ probe[1].out # None) =>
        LET i == probe[1].in
            o == probe[1].out[1]
            with == IF i.has_patterns THEN o.password[1] ELSE o.flipped[1]
            without == IF i.has_patterns THEN o.flipped[1] ELSE o.password[1]
        IN  /\ (ClassFlags(o.password) = ClassFlags(o.other) /\ Len(i.password) <= Len(i.other))
                   => o.password[1] <= o.other[1]
            /\ with <= without
            /\ 10 * with <= 7 * without
            /\ 7 * without < 10 * with + 10
            /\ o.password[1] >= 0 /\ o.other[1] >= 0 /\ o.flipped[1] >= 0

\* calculate_entropy was applied with has_patterns = true to a password and
\* to a longer one with the same classes, with more than 40 bits between them
C13_Witness ==
    /\ probe # None
    /\ probe[1].out # None
    /\ probe[1].in.has_patterns
    /\ ClassFlags(probe[1].out[1].password) = ClassFlags(probe[1].out[1].other)
    /\ Len(probe[1].in.password) < Len(probe[1].in.other)
    /\ probe[1].out[1].other[1] - probe[1].out[1].password[1] > 40 * Micro
    /\ probe[1].out[1].password[1] > 0

\* the category m holds with a non-empty issue list
Present(m, category) == \E k \in 1..Len(m) : m[k][1] = category /\ Len(m[k][2]) > 0

\* the sum of the penalties of the categories m holds with a non-empty list
PenaltySum(m) ==
      (IF Present(m, "repeated_chars") THEN 15 ELSE 0)
    + (IF Present(m, "sequential_chars") THEN 20 ELSE 0)
    + (IF Present(m, "keyboard_pattern") THEN 25 ELSE 0)
    + (IF Present(m, "leetspeak") THEN 10 ELSE 0)
    + (IF Present(m, "dictionary_word") THEN 30 ELSE 0)
    + (IF Present(m, "year_pattern") THEN 15 ELSE 0)
    + (IF Present(m, "username_similarity") THEN 25 ELSE 0)
    + (IF Present(m, "low_variety") THEN 20 ELSE 0)

\* the bonus of a length
Bonus(n) == IF n >= 16 THEN 5 ELSE IF n >= 12 THEN 3 ELSE IF n >= 8 THEN 1 ELSE 0

\* C14: for a non-breached input calculate_score is base - P + bonus clamped
\* to 0..100, where base (the score with no pattern and no length) is 0 for
\* entropy <= 0, the truncated entropy below 20 bits, 20 plus the truncated
\* 1.5 * (entropy - 20) below 40 bits, 50 plus the truncated (entropy - 40)
\* below 60 bits, and 70 plus the truncated (entropy - 60) / 2, at most 10,
\* from 60 bits on, so at most 80 and non-decreasing; P takes the penalty of
\* every category with a non-empty list once; bonus is 5, 3, 1 or 0.
C14_ScoreFormula ==
    (probe # None /\ probe[1].out # None /\ "length" \in DOMAIN probe[1].in) =>
        LET i == probe[1].in
            o == probe[1].out[1]
            e == i.entropy_bits
            sum == o.base - PenaltySum(i.pattern_issues) + Bonus(i.length)
        IN  /\ (e <= 0) => o.base = 0
            /\ (0 < e /\ e < 20 * Micro) => o.base = e \div Micro
            /\ (20 * Micro <= e /\ e < 40 * Micro)
                   => o.base = 20 + (3 * (e - 20 * Micro)) \div (2 * Micro)
            /\ (40 * Micro <= e /\ e < 60 * Micro) => o.base = 50 + (e - 40 * Micro) \div Micro
            /\ (60 * Micro <= e /\ e < 80 * Micro)
                   => o.base = 70 + (e - 60 * Micro) \div (2 * Micro)
            /\ (80 * Micro <= e) => o.base = 80
            /\ o.base <= 80
            /\ o.base <= o.next
            /\ o.score = (IF sum < 0 THEN 0 ELSE IF sum > 100 THEN 100 ELSE sum)

\* calculate_score was applied to a map with a category of three issues and
\* gave a score between 0 and 100 that holds a bonus
C14_Witness ==
    /\ probe # None
    /\ probe[1].out # None
    /\ "length" \in DOMAIN probe[1].in
    /\ \E k \in 1..Len(probe[1].in.pattern_issues) : Len(probe[1].in.pattern_issues[k][2]) = 3
    /\ probe[1].in.length >= 12
    /\ probe[1].out[1].score > 0
    /\ probe[1].out[1].score = probe[1].out[1].base - 30 + Bonus(probe[1].in.length)

\* generate_recommendations was applied to a non-breached input
Recommended ==
    /\ probe # None
    /\ probe[1].out # None
    /\ "strength" \in DOMAIN probe[1].in
    /\ ~probe[1].in.is_breached

\* the texts of the messages that are not about a pattern category
GeneralTexts ==
    { "Password is weak. Consider using a longer, more complex password.",
      "Entropy is low ({entropy_bits:.1f} bits). Increase password complexity.",
      "Password is too short. Use at least 8 characters.",
      "Consider using a longer password (12+ characters) for better security.",
      "Add lowercase letters to increase character variety.",
      "Add uppercase letters to increase character variety.",
      "Add numbers to increase character variety.",
      "Add special characters to increase character variety.",
      "Password meets good security practices. Keep it secure and don't reuse it." }

\* how many of the eight categories the map m holds
PresentCategories(m) == { k \in 1..Len(Categories) : HasKey(m, Categories[k]) }

\* C15: for a non-breached input the recommendations hold exactly one message
\* for each of the eight pattern categories present in the pattern map, and
\* the "meets good security practices" message only when no category is
\* present.
C15_OneMessagePerCategory ==
    Recommended =>
        LET out == probe[1].out[1]
            m == probe[1].in.pattern_issues
            about == { k \in 1..Len(out) : out[k].text \notin GeneralTexts }
        IN  /\ Cardinality(about) = Cardinality(PresentCategories(m))
            /\ \A j, k \in about : out[j] = out[k] => j = k
            /\ (\E k \in 1..Len(out) :
                    out[k].text = "Password meets good security practices. Keep it secure and don't reuse it.")
                   => PresentCategories(m) = {}

\* the place of a message in the order of the recommendations
Place(text) ==
    CASE text = "Password is weak. Consider using a longer, more complex password." -> 1
      [] text = "Entropy is low ({entropy_bits:.1f} bits). Increase password complexity." -> 2
      [] text = "Password is too short. Use at least 8 characters." -> 3
      [] text = "Consider using a longer password (12+ characters) for better security." -> 3
      [] text = "Add lowercase letters to increase character variety." -> 4
      [] text = "Add uppercase letters to increase character variety." -> 5
      [] text = "Add numbers to increase character variety." -> 6
      [] text = "Add special characters to increase character variety." -> 7
      [] text = "Avoid repeating the same character multiple times." -> 8
      [] text = "Avoid sequential patterns (abc, 123, etc.)." -> 9
      [] text = "Avoid keyboard patterns (qwerty, asdf, etc.)." -> 10
      [] text = "Leetspeak substitutions (p@ssw0rd) are predictable. Use truly random characters." -> 11
      [] text = "Avoid common dictionary words. Use random or uncommon words." -> 12
      [] text = "Avoid year patterns. Don't use birth years or common years." -> 13
      [] text = "Don't use your username or email in your password." -> 14
      [] OTHER -> 15

\* C16: for a non-breached input the recommendations come in the order
\* strength tier, low entropy (below 20 bits), length (below 8, else below
\* 12), missing classes (lower, upper, digit, special), then the pattern
\* categories in the order repeated_chars, sequential_chars,
\* keyboard_pattern, leetspeak, dictionary_word, year_pattern,
\* username_similarity, low_variety.
C16_RecommendationOrder ==
    Recommended =>
        LET out == probe[1].out[1]
            i == probe[1].in
            has(text) == \E k \in 1..Len(out) : out[k].text = text
        IN  /\ \A j, k \in 1..Len(out) : j < k => Place(out[j].text) < Place(out[k].text)
            /\ has("Entropy is low ({entropy_bits:.1f} bits). Increase password complexity.")
                   <=> i.entropy_bits < 20 * Micro
            /\ has("Password is too short. Use at least 8 characters.") <=> i.length < 8
            /\ has("Consider using a longer password (12+ characters) for better security.")
                   <=> (i.length >= 8 /\ i.length < 12)

\* C17: when the lowercased password is in the local blacklist, check_breach
\* returns breached with the fixed local reason and sends no remote query,
\* also with the remote check enabled; a query is sent only after a local
\* miss with the remote check enabled, and at most one in a call.
C17_LocalHitFirst ==
    [][ (pc = "check_breach" /\ pc' # "check_breach") =>
            LET hit == lower(args.password) \in blacklist IN
            /\ hit => /\ ev'.is_breached
                      /\ ev'.breach_reason = Some(LOCAL_REASON)
                      /\ requests' = requests
                      /\ sent' = sent
            /\ (requests' # requests) => (~hit /\ hibp_enabled)
            /\ requests = << >>
            /\ Len(requests') <= 1 ]_vars

\* check_breach has returned a local hit with the remote check enabled
C17_Witness ==
    /\ pc = "returned"
    /\ op = "check_breach"
    /\ hibp_enabled
    /\ lower(args.password) \in blacklist
    /\ result = Some(<< TRUE, Some(LOCAL_REASON) >>)
    /\ requests = << >>

\* check_breach has returned after a local miss and one remote query
C17_WitnessQuery ==
    /\ pc = "returned"
    /\ op = "check_breach"
    /\ hibp_enabled
    /\ lower(args.password) \notin blacklist
    /\ Len(requests) = 1

\* the stripped, lowercased non-blank lines of the file at path on the disk,
\* the empty set when it is absent or not readable
EntriesAt(path, disk) ==
    IF path \in DOMAIN disk /\ disk[path].readable
    THEN { lower(strip(disk[path].lines[k])) :
               k \in { j \in 1..Len(disk[path].lines) : strip(disk[path].lines[j]) # << >> } }
    ELSE {}

\* C18: a checker built with blacklist_file = P holds the blacklist of the
\* file at path P, every non-blank line stripped and lowercased, and the
\* empty set when that file is absent or not readable.
C18_LoadsFileAtPath == loaded = EntriesAt(blacklist_file, files)

\* what the detector of a category gives for the arguments of the call
DetectorIssues(category) ==
    CASE category = "repeated_chars" -> _detect_repeated_chars(args.password)
      [] category = "sequential_chars" -> _detect_sequential_chars(args.password).issues
      [] category = "keyboard_pattern" -> _detect_keyboard_patterns(lower(args.password))
      [] category = "leetspeak" -> _detect_leetspeak(lower(args.password))
      [] category = "dictionary_word" -> _detect_dictionary_words(lower(args.password), dictionary_words)
      [] category = "year_pattern" -> _detect_year_patterns(args.password)
      [] category = "username_similarity" -> _detect_username_similarity(args.password, args.username, args.email)
      [] category = "low_variety" -> _detect_low_variety(args.password)

\* the place of a tag among the eight category tags, 0 for any other key
TagPlace(key) ==
    IF \E k \in 1..8 : Categories[k] = key THEN CHOOSE k \in 1..8 : Categories[k] = key ELSE 0

\* C19: the map detect_all returns has only keys among the eight category
\* tags, every key maps to a non-empty list, a category key is present iff
\* its detector gave at least one issue for the input, and the keys come in
\* the canonical category order.
C19_DetectAllMap ==
    (op = "evaluate" /\ pc = "calculate_entropy") =>
        LET m == ev.pattern_issues IN
        /\ \A k \in 1..Len(m) : TagPlace(m[k][1]) # 0 /\ Len(m[k][2]) > 0
        /\ \A c \in 1..8 :
               (\E k \in 1..Len(m) : m[k][1] = Categories[c])
                   <=> Len(DetectorIssues(Categories[c])) > 0
        /\ \A k \in 1..Len(m) : m[k][2] = DetectorIssues(m[k][1])
        /\ \A j, k \in 1..Len(m) : j < k => TagPlace(m[j][1]) < TagPlace(m[k][1])

\* detect_all has returned a map with several categories, not all of them
C19_Witness ==
    /\ op = "evaluate"
    /\ pc = "calculate_entropy"
    /\ Len(ev.pattern_issues) >= 3
    /\ Len(ev.pattern_issues) < 8
    /\ ev.pattern_issues[1][1] # "repeated_chars"

\* the letters and the digits in the order of their code points
LetterOrder == << "a","b","c","d","e","f","g","h","i","j","k","l","m","n","o","p","q","r","s","t","u","v","w","x","y","z" >>
CapitalOrder == << "A","B","C","D","E","F","G","H","I","J","K","L","M","N","O","P","Q","R","S","T","U","V","W","X","Y","Z" >>
DigitOrder == << "0","1","2","3","4","5","6","7","8","9" >>

\* the place of a letter in the alphabet, its case set aside, 0 for any
\* other character; the value of a digit, -1 for any other character
LetterPlace(c) ==
    IF \E k \in 1..26 : LetterOrder[k] = c THEN CHOOSE k \in 1..26 : LetterOrder[k] = c
    ELSE IF \E k \in 1..26 : CapitalOrder[k] = c THEN CHOOSE k \in 1..26 : CapitalOrder[k] = c
    ELSE 0
DigitValue(c) ==
    IF \E k \in 1..10 : DigitOrder[k] = c THEN (CHOOSE k \in 1..10 : DigitOrder[k] = c) - 1 ELSE -1

\* a window is sequential: all letters going up by one or all going down by
\* one, or all digits each one more than the one before modulo 10 or each one
\* less modulo 10
SequentialWindowClaim(w) ==
    \/ /\ \A i \in 1..Len(w) : LetterPlace(w[i]) > 0
       /\ \/ \A i \in 1..(Len(w) - 1) : LetterPlace(w[i + 1]) = LetterPlace(w[i]) + 1
          \/ \A i \in 1..(Len(w) - 1) : LetterPlace(w[i + 1]) = LetterPlace(w[i]) - 1
    \/ /\ \A i \in 1..Len(w) : DigitValue(w[i]) >= 0
       /\ \/ \A i \in 1..(Len(w) - 1) : DigitValue(w[i + 1]) = (DigitValue(w[i]) + 1) % 10
          \/ \A i \in 1..(Len(w) - 1) : DigitValue(w[i + 1]) = (DigitValue(w[i]) + 9) % 10

\* C20: the sequential detector looks at each of the len - 3 windows of 4
\* consecutive characters and reports at most one issue for a window; a
\* window is reported iff it is all letters with consecutive code points up
\* or down (case set aside, no step between z and a) or all digits each
\* (previous + 1) mod 10 or each (previous - 1) mod 10, so "8901" and "1098"
\* are reported.  Stated of the calls that return.
C20_SequentialWindows ==
    (probe # None /\ probe[1].out # None /\ "raised" \in DOMAIN probe[1].out[1]
     /\ ~probe[1].out[1].raised) =>
        LET password == probe[1].in
            issues == probe[1].out[1].issues
            windows == [ i \in 1..(IF Len(password) >= 4 THEN Len(password) - 3 ELSE 0)
                             |-> SubSeq(password, i, i + 3) ]
            reported == SelectSeq(windows, SequentialWindowClaim)
        IN  /\ Len(issues) = Len(reported)
            /\ \A k \in 1..Len(issues) : issues[k].s = reported[k]

\* the detector was applied to a password with the windows 8901 and 9012 and
\* reported both, or to one with 1098 and 2109
C20_Witness ==
    /\ probe # None
    /\ probe[1].out # None
    /\ probe[1].in \in { << "7","8","9","0","1","2" >>, << "2","1","0","9","8","7" >> }
    /\ Len(probe[1].out[1].issues) = 3

\* the keyboard rows and the reads down the columns of the three letter rows
RowQ == << "q","w","e","r","t","y","u","i","o","p" >>
RowA == << "a","s","d","f","g","h","j","k","l" >>
RowZ == << "z","x","c","v","b","n","m" >>
RowDigits == << "1","2","3","4","5","6","7","8","9","0" >>
ColumnReads == { << RowQ[c], RowA[c], RowZ[c] >> : c \in 1..7 }

\* the contiguous substrings of length 4 of a row
Substrings4(row) == { SubSeq(row, i, i + 3) : i \in 1..(Len(row) - 3) }

\* the set the claim describes, lower case only
ClaimedKeyboardSet ==
    UNION { Substrings4(row) \cup Substrings4(Reverse(row)) : row \in { RowQ, RowA, RowZ, RowDigits } }
    \cup ColumnReads

\* the keyboard detector was applied to a password
KeyboardApplied ==
    /\ probe # None
    /\ probe[1].out # None
    /\ probe[1].in \in KeyboardInputs

\* C21: the keyboard-pattern set holds every substring of length 4 of the
\* four rows and of their reverses and the column reads of the first three
\* rows ("qaz", "wsx"), each in lower and upper case; every window of the
\* lowercased password that is in the set is reported once for its position.
C21_KeyboardSet ==
    KeyboardApplied =>
        LET password_lower == lower(probe[1].in)
            issues == probe[1].out[1]
            windows == [ i \in 1..(IF Len(password_lower) >= 4 THEN Len(password_lower) - 3 ELSE 0)
                             |-> SubSeq(password_lower, i, i + 3) ]
            reported == SelectSeq(windows, LAMBDA w : w \in keyboard_patterns)
        IN  /\ \A p \in ClaimedKeyboardSet : p \in keyboard_patterns /\ upper(p) \in keyboard_patterns
            /\ Len(issues) = Len(reported)
            /\ \A k \in 1..Len(issues) : issues[k].s = reported[k]

\* C21, the part that holds: the set is exactly the substrings of length 4 of
\* the four rows and of their reverses in lower and upper case, with no
\* column read, and the windows of the lowercased password in it are
\* reported once each in order.
C21_RowsOnly ==
    KeyboardApplied =>
        LET password_lower == lower(probe[1].in)
            issues == probe[1].out[1]
            rows == ClaimedKeyboardSet \ ColumnReads
            windows == [ i \in 1..(IF Len(password_lower) >= 4 THEN Len(password_lower) - 3 ELSE 0)
                             |-> SubSeq(password_lower, i, i + 3) ]
            reported == SelectSeq(windows, LAMBDA w : w \in rows)
        IN  /\ keyboard_patterns = rows \cup { upper(p) : p \in rows }
            /\ Len(issues) = Len(reported)
            /\ \A k \in 1..Len(issues) : issues[k].s = reported[k]

\* the dictionary detector was applied
DictionaryApplied ==
    /\ probe # None
    /\ probe[1].out # None
    /\ "dictionary_words" \in DOMAIN probe[1].in

\* the places of the issues that name the word
IssuesNaming(issues, word) == { k \in 1..Len(issues) : issues[k].s = word }

\* C22: with a non-empty dictionary, the whole lowercased password being in
\* the dictionary is always reported as the "Password is a common dictionary
\* word" issue, and every dictionary word of length >= 4 that is a substring
\* of the lowercased password is reported exactly once, whatever the
\* iteration order and the characters of the words (apostrophes included);
\* with an empty dictionary no issue is produced.
C22_DictionaryWords ==
    DictionaryApplied =>
        LET password_lower == lower(probe[1].in.password)
            words == probe[1].in.dictionary_words
            issues == probe[1].out[1]
        IN  /\ (Len(words) = 0) => issues = << >>
            /\ (\E k \in 1..Len(words) : words[k] = password_lower)
                   => \E k \in 1..Len(issues) :
                          /\ issues[k].text = "Password is a common dictionary word: '{password_lower}'"
                          /\ issues[k].s = password_lower
            /\ \A k \in 1..Len(words) :
                   (Len(words[k]) >= 4 /\ Contains(password_lower, words[k]))
                       => Cardinality(IssuesNaming(issues, words[k])) = 1

\* C22 for the dictionaries without an apostrophe and the passwords of 4
\* characters or more
C22_PlainWords ==
    (DictionaryApplied
     /\ \A k \in 1..Len(probe[1].in.dictionary_words) :
            \A i \in 1..Len(probe[1].in.dictionary_words[k]) : probe[1].in.dictionary_words[k][i] # "'"
     /\ Len(probe[1].in.password) >= 4)
        => C22_DictionaryWords

\* the first place of the run of digits that holds place i of the password
RECURSIVE RunStart(_, _)
RunStart(password, i) ==
    IF i > 1 /\ DigitValue(password[i - 1]) >= 0 THEN RunStart(password, i - 1) ELSE i

\* place i starts a group: four digits from i on, a whole number of groups
\* after the start of the run
GroupStart(password, i) ==
    /\ i + 3 <= Len(password)
    /\ \A k \in i..(i + 3) : DigitValue(password[k]) >= 0
    /\ (i - RunStart(password, i)) % 4 = 0

\* the value of the four digits from place i on
GroupValue(password, i) ==
    1000 * DigitValue(password[i]) + 100 * DigitValue(password[i + 1])
    + 10 * DigitValue(password[i + 2]) + DigitValue(password[i + 3])

\* C23: the year detector scans the password from the left for groups of 4
\* digits that do not overlap (each maximal run of digits is cut into groups
\* of 4 from its left end) and reports a group iff its value is in
\* 1900..2099; a year that only occurs overlapping an earlier group ("2019"
\* in "12019") is not reported.
C23_YearGroups ==
    (probe # None /\ probe[1].out # None /\ probe[1].in \in YearInputs) =>
        LET password == probe[1].in
            issues == probe[1].out[1]
            places == [ i \in 1..Len(password) |-> i ]
            years == SelectSeq(places, LAMBDA i : /\ GroupStart(password, i)
                                                   /\ GroupValue(password, i) >= 1900
                                                   /\ GroupValue(password, i) <= 2099)
        IN  /\ Len(issues) = Len(years)
            /\ \A k \in 1..Len(issues) : issues[k].s = SubSeq(password, years[k], years[k] + 3)

\* the year detector was applied to "12019" and reported nothing
C23_Witness ==
    /\ probe # None
    /\ probe[1].out # None
    /\ probe[1].in = << "1","2","0","1","9" >>
    /\ probe[1].out[1] = << >>

\* the spellings of each of the five words that its pattern accepts
Spellings(word) ==
    CASE word = << "a","d","m","i","n" >> ->
             { << x, "d","m", y, "n" >> : x \in { "a", "@" }, y \in { "i", "1" } }
      [] word = << "p","a","s","s","w","o","r","d" >> ->
             { << "p", x, "s","s","w", y, "r","d" >> : x \in { "a", "@" }, y \in { "o", "0" } }
      [] word = << "l","o","v","e" >> -> { << x, "0","v","3" >> : x \in { "l", "1" } }
      [] word = << "h","a","c","k" >> -> { << x, "a","c","k" >> : x \in { "h", "4" } }
      [] word = << "t","e","s","t" >> -> { << x, "e","s","t" >> : x \in { "t", "7" } }

LeetWordList ==
    { << "a","d","m","i","n" >>, << "p","a","s","s","w","o","r","d" >>, << "l","o","v","e" >>,
      << "h","a","c","k" >>, << "t","e","s","t" >> }

\* the characters counted for the ratio
LeetCharacters == { "4", "@", "3", "1", "!", "0", "5", "$", "7", "2" }

\* the leetspeak detector was applied
LeetApplied == probe # None /\ probe[1].out # None /\ probe[1].in \in LeetInputs

\* C24: the leetspeak detector reports "resembles W" once for each of the
\* five words whose pattern matches the lowercased password; the patterns of
\* admin, password, hack and test accept the plain letters (that of love
\* does not); and it reports the high-ratio issue iff the characters of
\* {4,@,3,1,!,0,5,$,7,2} are strictly more than 30% of the length.
C24_Leetspeak ==
    LeetApplied =>
        LET password_lower == lower(probe[1].in)
            issues == probe[1].out[1]
            resembles(word) ==
                { k \in 1..Len(issues) :
                      /\ issues[k].text = "Leetspeak substitution detected (resembles '{word}')"
                      /\ issues[k].s = word }
            high == { k \in 1..Len(issues) :
                          issues[k].text = "High leetspeak substitution ratio detected" }
            matched == { word \in LeetWordList :
                             \E v \in Spellings(word) : Contains(password_lower, v) }
            count == Cardinality({ i \in 1..Len(password_lower) : password_lower[i] \in LeetCharacters })
        IN  /\ \A word \in LeetWordList :
                   Cardinality(resembles(word)) = (IF word \in matched THEN 1 ELSE 0)
            /\ Cardinality(high) = (IF 10 * count > 3 * Len(password_lower) THEN 1 ELSE 0)
            /\ Len(issues) = Cardinality(matched) + Cardinality(high)
            /\ \A word \in LeetWordList : (word \in Spellings(word)) <=> (word # << "l","o","v","e" >>)

\* the detector was applied to the plain word "password" and reported that it
\* resembles password
C24_Witness ==
    /\ LeetApplied
    /\ probe[1].in = << "P","a","s","s","w","o","r","d" >>
    /\ Len(probe[1].out[1]) = 1
    /\ probe[1].out[1][1].s = << "p","a","s","s","w","o","r","d" >>

\* a maximal run of one character starts at place i of the password
RunStartsAt(password, i) == i = 1 \/ password[i - 1] # password[i]

\* the length of the maximal run that starts at place i
RunLength(password, i) ==
    CHOOSE n \in 1..(Len(password) - i + 1) :
        /\ \A k \in i..(i + n - 1) : password[k] = password[i]
        /\ (i + n > Len(password) \/ password[i + n] # password[i])

\* C25: the repeated-character detector reports one issue for each maximal
\* run of one character (case-sensitive) of length >= 3, with the character
\* and the length of the whole run, from left to right, and nothing for runs
\* of length 1 or 2; "aaaa1111" gives two issues, 'a' 4 times and '1' 4 times.
C25_RepeatedRuns ==
    (probe # None /\ probe[1].out # None /\ probe[1].in \in RepeatInputs) =>
        LET password == probe[1].in
            issues == probe[1].out[1]
            places == [ i \in 1..Len(password) |-> i ]
            runs == SelectSeq(places, LAMBDA i : /\ RunStartsAt(password, i)
                                                  /\ RunLength(password, i) >= 3)
        IN  /\ Len(issues) = Len(runs)
            /\ \A k \in 1..Len(issues) :
                   /\ issues[k].s = << password[runs[k]] >>
                   /\ issues[k].n = << RunLength(password, runs[k]) >>

\* the detector was applied to "aaaa1111" and reported 'a' 4 times and '1'
\* 4 times
C25_Witness ==
    /\ probe # None
    /\ probe[1].out # None
    /\ probe[1].in = << "a","a","a","a","1","1","1","1" >>
    /\ Len(probe[1].out[1]) = 2
    /\ probe[1].out[1][1].s = << "a" >> /\ probe[1].out[1][1].n = << 4 >>
    /\ probe[1].out[1][2].s = << "1" >> /\ probe[1].out[1][2].n = << 4 >>

\* the username detector was applied
UsernameApplied ==
    /\ probe # None
    /\ probe[1].out # None
    /\ "email" \in DOMAIN probe[1].in

\* a non-empty value was supplied
Supplied(opt) == opt # None /\ opt[1] # << >>

\* the text of s before its first '@', the whole of s when it has none
LocalPart(s) ==
    IF \E i \in 1..Len(s) : s[i] = "@"
    THEN SubSeq(s, 1, (CHOOSE i \in 1..Len(s) : s[i] = "@" /\ \A j \in 1..(i - 1) : s[j] # "@") - 1)
    ELSE s

\* the issues with the text
IssuesWith(issues, text) == { k \in 1..Len(issues) : issues[k].text = text }

\* C26: username_similarity is present only when a non-empty username or
\* email is supplied; the username containment issue is reported iff the
\* lowercased username is a substring of the lowercased password, the email
\* one iff the lowercased local part is; a similarity issue is added when
\* the matching-blocks ratio of the lowercased password and the identity
\* string is >= 0.5; the category is penalized once however many issues.
C26_UsernameSimilarity ==
    UsernameApplied =>
        LET i == probe[1].in
            issues == probe[1].out[1].issues
            password_lower == lower(i.password)
            has(text) == IssuesWith(issues, text) # {}
            one(text) == Cardinality(IssuesWith(issues, text)) <= 1
        IN  /\ (issues # << >>) => (Supplied(i.username) \/ Supplied(i.email))
            /\ Supplied(i.username) =>
                   /\ has("Password contains username: '{username}'")
                          <=> Contains(password_lower, lower(i.username[1]))
                   /\ has("Password too similar to username (similarity: {similarity:.2f})")
                          <=> 4 * matching_size(password_lower, lower(i.username[1]), 0,
                                                Len(password_lower), 0, Len(i.username[1]))
                              >= Len(password_lower) + Len(i.username[1])
            /\ Supplied(i.email) =>
                   LET local == LocalPart(lower(i.email[1])) IN
                   /\ has("Password contains email username: '{email_local}'")
                          <=> Contains(password_lower, local)
                   /\ has("Password too similar to email (similarity: {similarity:.2f})")
                          <=> \/ Len(password_lower) + Len(local) = 0
                              \/ 4 * matching_size(password_lower, local, 0, Len(password_lower),
                                                   0, Len(local))
                                 >= Len(password_lower) + Len(local)
            /\ ~Supplied(i.username) =>
                   /\ ~has("Password contains username: '{username}'")
                   /\ ~has("Password too similar to username (similarity: {similarity:.2f})")
            /\ ~Supplied(i.email) =>
                   /\ ~has("Password contains email username: '{email_local}'")
                   /\ ~has("Password too similar to email (similarity: {similarity:.2f})")
            /\ \A k \in 1..Len(issues) : one(issues[k].text)
            /\ probe[1].out[1].penalty = (IF issues = << >> THEN 0 ELSE 25)

\* the detector reported the username contained and similar, and the email
\* too, and the category costs 25
C26_Witness ==
    /\ UsernameApplied
    /\ probe[1].in.password = << "j","o","h","n","s","m","i","t","h","1","2","3" >>
    /\ probe[1].in.username = Some(<< "J","o","h","n","S","m","i","t","h" >>)
    /\ Len(probe[1].out[1].issues) >= 3
    /\ probe[1].out[1].penalty = 25

\* the number of distinct characters of the password
Distinct(password) == Cardinality({ password[i] : i \in 1..Len(password) })

\* C27: the low-variety detector reports exactly one issue iff the password
\* is not empty and 10 x distinct < 3 x length (distinct / length strictly
\* below 0.3), and nothing otherwise: a ratio of exactly 0.3 is not reported
\* and no password of length <= 3 is.
C27_LowVariety ==
    (probe # None /\ probe[1].out # None /\ probe[1].in \in VarietyInputs) =>
        LET password == probe[1].in
            issues == probe[1].out[1]
            low == Len(password) > 0 /\ 10 * Distinct(password) < 3 * Len(password)
        IN  /\ Len(issues) = (IF low THEN 1 ELSE 0)
            /\ low => /\ issues[1].n[1] = Distinct(password)
                      /\ issues[1].n[2] = Len(password)
            /\ (Len(password) <= 3) => issues = << >>

\* the detector was applied to a password of 3 distinct characters in 10 and
\* reported nothing
C27_Witness ==
    /\ probe # None
    /\ probe[1].out # None
    /\ probe[1].in = << "a","b","c","a","b","c","a","b","c","a" >>
    /\ probe[1].out[1] = << >>

\* the detector was applied to a password of 3 distinct characters in 11 and
\* reported it
C27_WitnessReported ==
    /\ probe # None
    /\ probe[1].out # None
    /\ probe[1].in = << "a","b","c","a","b","c","a","b","c","a","b" >>
    /\ Len(probe[1].out[1]) = 1

\* calculate_entropy was applied to a non-empty password
ClassesApplied ==
    /\ probe # None
    /\ probe[1].out # None
    /\ probe[1].in \in ClassInputs
    /\ Len(probe[1].in.password) > 0

\* the flags and the pool are those of the classes the password holds, and
\* a password of no class has pool 1 and entropy 0
ClassFlagsAndPool ==
    LET password == probe[1].in.password
        entropy_bits == probe[1].out[1][1]
        flags == probe[1].out[1][2]
        any(S) == \E i \in 1..Len(password) : password[i] \in S
        sum == (IF flags.has_lower THEN 26 ELSE 0) + (IF flags.has_upper THEN 26 ELSE 0)
               + (IF flags.has_digit THEN 10 ELSE 0) + (IF flags.has_special THEN 33 ELSE 0)
    IN  /\ flags.has_lower <=> any(LowerSet \cup { "auml" })
        /\ flags.has_upper <=> any(UpperSet \cup { "AUML" })
        /\ flags.has_digit <=> any(DigitSet \cup { "sup2" })
        /\ flags.has_special <=> any(SPECIAL_CHARS)
        /\ flags.pool_size = (IF sum < 1 THEN 1 ELSE sum)
        /\ (sum = 0) => (flags.pool_size = 1 /\ entropy_bits = 0)

\* C28: for a non-empty password calculate_entropy sets each class flag iff
\* the password holds a lowercase letter, an uppercase letter, a digit, a
\* character of the special-symbol set; that set has exactly 33 characters,
\* as the pool contribution of 33; pool_size is the sum of 26/26/10/33 over
\* the classes present, at least 1, so a password of no class has pool_size
\* 1 and entropy 0.
C28_ClassesAndPool ==
    ClassesApplied => (ClassFlagsAndPool /\ Cardinality(SPECIAL_CHARS) = 33)

\* C28 without the size of the special-symbol set, which is 32
C28_FlagsAndPool ==
    ClassesApplied => (ClassFlagsAndPool /\ Cardinality(SPECIAL_CHARS) = 32)

\* C29: no result of evaluate has a score above 85 (base at most 80 plus a
\* bonus of at most 5), and every result of strength "Very Strong" is not
\* breached and has no pattern category, so that its issues are exactly
\* ["No major issues detected"].
C29_VeryStrongIsClean ==
    Returned("evaluate") =>
        LET r == result[1] IN
        /\ r.score <= 85
        /\ (r.strength = "Very Strong") =>
               /\ r.score >= 80
               /\ ~r.is_breached
               /\ (Len(args.password) > 0 => ev.pattern_issues = << >>)
               /\ r.issues = << Rec("No major issues detected") >>

\* evaluate returned a "Very Strong" result of score 85
C29_Witness ==
    /\ Returned("evaluate")
    /\ result[1].strength = "Very Strong"
    /\ result[1].score = 85
    /\ Len(args.password) >= 16

\* C29 for calculate_score on its own: at most 85, and at most 75 with a
\* pattern category of a non-empty list
C29_ScoreBound ==
    (probe # None /\ probe[1].out # None /\ "length" \in DOMAIN probe[1].in) =>
        /\ probe[1].out[1].score <= 85
        /\ PenaltySum(probe[1].in.pattern_issues) > 0 => probe[1].out[1].score <= 75

\* evaluate has returned for a non-empty password and an email that begins
\* with '@'
EmptyLocalPart ==
    /\ Returned("evaluate")
    /\ Len(args.password) > 0
    /\ args.email # None
    /\ Len(args.email[1]) > 0
    /\ args.email[1][1] = "@"

\* C30: when the email has an empty local part (it begins with '@'), the
\* detector reports "Password contains email username" for every non-empty
\* password; the password then carries the username_similarity category,
\* its penalty of 25 and the entropy reduction of 30%, although no identity
\* text was matched.
C30_EmptyLocalPart ==
    EmptyLocalPart =>
        LET r == result[1]
            m == ev.pattern_issues
            plain == calculate_entropy(args.password, FALSE)[1]
            sum == base_score(ev.entropy_bits) - PenaltySum(m) + Bonus(Len(args.password))
        IN  /\ \E k \in 1..Len(m) :
                   /\ m[k][1] = "username_similarity"
                   /\ \E j \in 1..Len(m[k][2]) :
                          /\ m[k][2][j].text = "Password contains email username: '{email_local}'"
                          /\ m[k][2][j].s = << >>
            /\ \E k \in 1..Len(r.issues) :
                   /\ r.issues[k].text = "Password contains email username: '{email_local}'"
                   /\ r.issues[k].s = << >>
            /\ ev.entropy_bits = (plain \div 10) * 7 + ((plain % 10) * 7) \div 10
            /\ PenaltySum(m) >= 25
            /\ ~r.is_breached => r.score = (IF sum < 0 THEN 0 ELSE IF sum > 100 THEN 100 ELSE sum)

\* evaluate returned for a password that shares no character with the
\* email, with one issue in the username_similarity category
C30_Witness ==
    /\ EmptyLocalPart
    /\ args.password = << "1" >>
    /\ \E k \in 1..Len(ev.pattern_issues) :
           /\ ev.pattern_issues[k][1] = "username_similarity"
           /\ Len(ev.pattern_issues[k][2]) = 1
    /\ result[1].score = 0

====
